---- MODULE Spec2Model ----
(***************************************************************************)
(* Content lifecycle, revision history, slug uniqueness and the background *)
(* scheduler of the pawtal backend (services/pages.rs, services/           *)
(* articles.rs, api/trash.rs, tasks.rs, auth/session.rs).                  *)
(*                                                                         *)
(* Every `.await` on the connection pool is one storage step: handlers of  *)
(* concurrent requests and the scheduler interleave between such steps.    *)
(* Each client (user) has at most one request in flight.                   *)
(*                                                                         *)
(* Time is counted in slots, SlotsPerDay slots to a UTC day.  Timestamps   *)
(* are TEXT in SQLite, so a stored timestamp keeps the format it was       *)
(* written in and WHERE clauses compare the texts.                         *)
(***************************************************************************)
EXTENDS Integers, Sequences, FiniteSets, TLC

\* ------------------------------------------------------------------ bounds

\* Requests the clients issue in one run.
MaxRequests == 3
\* Times the clock moves forward in one run.
MaxAdvances == 2
\* Runs of the scheduled tasks in which a query fails.
MaxFailures == 1
\* Resolution of the clock: slots in one UTC day.
SlotsPerDay == 2

\* ------------------------------------------------------- program constants

\* datetime('now', '-30 days') in the trash sweeps.
RetentionDays == 30
\* SESSION_TTL_SECONDS, in days.
SessionTtlDays == 7

Retention == RetentionDays * SlotsPerDay
SessionTtl == SessionTtlDays * SlotsPerDay

\* ------------------------------------------------------------------ inputs

Users == {"u1", "u2"}
ContentTypes == {"page", "article"}

\* Option<T>
None == <<>>
Some(x) == <<x>>
UnwrapOr(o, d) == IF o = None THEN d ELSE o[1]

\* Strings the slug logic reads are sequences of characters.
Upper == {"H"}
Lower == {"h", "i", "o", "k"}
ToLower(c) == IF c = "H" THEN "h" ELSE c
IsAlnum(c) == c \in Upper \cup Lower

NewTitle == <<"O", "k", " ", "!">>
NewContent == "c2"

\* -------------------------------------------------------------- timestamps

\* A TEXT timestamp: the instant t and the separator between date and time.
\* "T" is written by strftime('%Y-%m-%dT%H:%M:%SZ', 'now') and by the RFC 3339
\* encoding of a bound DateTime<Utc>; " " is written by datetime(...).
Null == [t |-> 0, f |-> "null"]
TsIso(t) == [t |-> t, f |-> "T"]
TsSql(t) == [t |-> t, f |-> " "]

Day(t) == t \div SlotsPerDay

\* SQLite's comparison of two TEXT timestamps (BINARY collation): the dates
\* first, then the separator (" " sorts before "T"), then the time of day.
\* A comparison with NULL is not true.
TextLess(a, b) ==
    /\ a # Null
    /\ b # Null
    /\ \/ Day(a.t) < Day(b.t)
       \/ /\ Day(a.t) = Day(b.t)
          /\ \/ a.f = " " /\ b.f = "T"
             \/ a.f = b.f /\ a.t < b.t

TextLeq(a, b) == TextLess(a, b) \/ (a # Null /\ a = b)

\* ------------------------------------------------------------------- state

VARIABLES
    now,            \* the wall clock, in slots
    advances,       \* times the clock has moved
    budget,         \* requests the clients may still issue
    next_id,        \* ids handed out by Uuid::new_v4 for content rows
    items,          \* tables pages and articles: id -> row (field ct names the table)
    revisions,      \* tables page_revisions and article_revisions: parent id -> rows, oldest first
    audit_log,      \* table audit_log: rows in insertion order
    sessions,       \* table sessions
    menus,          \* table menus: the names that have a row
    menu_items,     \* table menu_items: rows in insertion order
    users,          \* table users: the person (external_id) -> row
    pc,             \* per client: the storage step its request is at
    req,            \* per client: the request and the handler's locals
    resp,           \* per client: the last response
    sched,          \* the scheduler: asleep, or the step of the tick it is at
    tick_errors     \* the runs of run_scheduled_tasks that returned Err (the loop logs each)

vars == <<now, advances, budget, next_id, items, revisions, audit_log,
          sessions, menus, menu_items, users, pc, req, resp, sched,
          tick_errors>>

db == <<items, revisions, audit_log, sessions, menus, menu_items, users>>

Ids == DOMAIN items
Table(ct) == {i \in Ids : items[i].ct = ct}

NoReq == [op |-> "none"]
NoResp == [op |-> "none", result |-> "none"]

\* The server starts on an empty database at a time of day in `clocks`; the
\* clients will issue n requests.
InitWith(clocks, n) ==
    /\ now \in clocks
    /\ advances = 0
    /\ budget = n
    /\ next_id = 1
    /\ items = <<>>
    /\ revisions = <<>>
    /\ audit_log = <<>>
    /\ sessions = {}
    /\ menus = {}
    /\ menu_items = <<>>
    /\ users = <<>>
    /\ pc = [u \in Users |-> "idle"]
    /\ req = [u \in Users |-> NoReq]
    /\ resp = [u \in Users |-> NoResp]
    /\ sched = "sleep"
    /\ tick_errors = 0

Init == InitWith({0}, MaxRequests)

\* ----------------------------------------------------------------- helpers

\* helpers::slugify: lowercase, every run of non-alphanumerics becomes one
\* "-", no leading or trailing "-".
RECURSIVE SlugifyFrom(_, _, _)
SlugifyFrom(s, i, acc) ==
    IF i > Len(s) THEN acc
    ELSE IF IsAlnum(s[i])
         THEN SlugifyFrom(s, i + 1, Append(acc, ToLower(s[i])))
         ELSE IF acc # <<>> /\ acc[Len(acc)] # "-"
              THEN SlugifyFrom(s, i + 1, Append(acc, "-"))
              ELSE SlugifyFrom(s, i + 1, acc)

slugify(s) ==
    LET r == SlugifyFrom(s, 1, <<>>)
    IN  IF r # <<>> /\ r[Len(r)] = "-" THEN SubSeq(r, 1, Len(r) - 1) ELSE r

\* DEFAULT of the created_at / updated_at columns.
ColumnDefaultNow == TsIso(now)

\* sqlx binds a DateTime<Utc> as its RFC 3339 text.
EncodeDateTime(t) == TsIso(t)

\* ensure_slug_unique as it would be were every slug let through.
ensure_slug_unique_open(ct, slug, exclude_id) == {TRUE}

\* ensure_slug_unique: the results the SELECT ... LIMIT 1 and the match can
\* give (TRUE: Ok, FALSE: Conflict).
ensure_slug_unique(ct, slug, exclude_id) ==
    LET holders == {i \in Table(ct) : items[i].slug = slug}
    IN  IF holders = {} THEN {TRUE}
        ELSE {exclude_id = Some(i) : i \in holders}

\* SlugIndexAllows as it would be were the slug columns declared without the
\* constraint: every write goes through.
NoSlugIndex(ct, id, slug) == TRUE

\* The uniqueness constraint of the slug column of pages and of articles: a
\* write that would give row `id` a slug another row of the table holds fails.
SlugIndexAllows(ct, id, slug) ==
    \A i \in Table(ct) \ {id} : items[i].slug # slug

\* StatusCheckAllows as it would be were the status columns declared without
\* the constraint.
NoStatusCheck(status) == TRUE

\* The domain of the status column of pages and of articles: a write of any
\* other value fails.
Statuses == {"draft", "scheduled", "published", "trashed"}
StatusCheckAllows(status) == status \in Statuses

\* A handler returns: the client is idle again and holds the response.
Return(u, result) ==
    /\ pc' = [pc EXCEPT ![u] = "idle"]
    /\ resp' = [resp EXCEPT ![u] = [op |-> req[u].op, result |-> result]]
    /\ req' = [req EXCEPT ![u] = NoReq]

Goto(u, label) == pc' = [pc EXCEPT ![u] = label]

\* A request arrives: the client must be idle.
Accept(u, label, r) ==
    /\ pc[u] = "idle"
    /\ budget > 0
    /\ budget' = budget - 1
    /\ pc' = [pc EXCEPT ![u] = label]
    /\ req' = [req EXCEPT ![u] = r]
    /\ UNCHANGED <<now, advances, next_id, db, resp, sched, tick_errors>>

\* audit::log_action
log_action(user_id, action, entity_type, entity_id) ==
    audit_log' = Append(audit_log, [user_id |-> user_id, action |-> action,
                                    entity_type |-> entity_type,
                                    entity_id |-> entity_id])

\* create_revision as it would be were the parent to keep its latest revision
\* only.
create_revision_replacing(id, title, short_text, content, author_id) ==
    revisions' = [revisions EXCEPT ![id] =
        <<[title |-> title, short_text |-> short_text,
           content |-> content, author_id |-> author_id,
           created_at |-> TsIso(now)]>>]

\* create_revision: one more row for the parent; the foreign key needs the
\* parent row.
create_revision(id, title, short_text, content, author_id) ==
    revisions' = [revisions EXCEPT ![id] =
        Append(@, [title |-> title, short_text |-> short_text,
                   content |-> content, author_id |-> author_id,
                   created_at |-> ColumnDefaultNow])]

\* ------------------------------------------------------------------ create

\* The request bodies the clients send (CreatePage / CreateArticle).
\* publish_at is absent (0) or an instant one slot before or after the
\* request.
CreateInput(title, slug, content, status, publish_at) ==
    [title |-> title, slug |-> slug, content |-> content, status |-> status,
     publish_at |-> publish_at]

\* DefaultStatus as it would be were a new item to go live at once.
DefaultStatusPublished == "published"

\* input.status.unwrap_or_else(|| "draft".to_owned())
DefaultStatus == "draft"

\* POST /api/admin/pages, /api/admin/articles.  publish_at is absent (0) or
\* an instant one slot before or after the request.
BeginCreate(u, cts, inputs) ==
    \E ct \in cts, input \in inputs :
        Accept(u, "create_check",
               [op |-> "create", ct |-> ct, id |-> 0,
                title |-> input.title,
                slug |-> UnwrapOr(input.slug, slugify(input.title)),
                content |-> UnwrapOr(input.content, ""),
                short_text |-> "",
                status |-> UnwrapOr(input.status, DefaultStatus),
                publish_at |-> IF input.publish_at = 0 THEN Null
                               ELSE EncodeDateTime(now + input.publish_at)])

CreateCheck(u) ==
    /\ pc[u] = "create_check"
    /\ \E ok \in ensure_slug_unique(req[u].ct, req[u].slug, None) :
        IF ok THEN Goto(u, "create_insert") /\ UNCHANGED <<req, resp>>
        ELSE Return(u, "Conflict")
    /\ UNCHANGED <<now, advances, budget, next_id, db, sched, tick_errors>>

CreateInsert(u) ==
    /\ pc[u] = "create_insert"
    /\ IF /\ SlugIndexAllows(req[u].ct, next_id, req[u].slug)
          /\ StatusCheckAllows(req[u].status)
       THEN /\ items' = items @@ (next_id :>
                  [ct |-> req[u].ct, title |-> req[u].title, slug |-> req[u].slug,
                   content |-> req[u].content, short_text |-> req[u].short_text,
                   status |-> req[u].status, publish_at |-> req[u].publish_at,
                   author_id |-> u, created_at |-> ColumnDefaultNow,
                   updated_at |-> ColumnDefaultNow, trashed_at |-> Null])
            /\ revisions' = revisions @@ (next_id :> <<>>)
            /\ next_id' = next_id + 1
            /\ req' = [req EXCEPT ![u].id = next_id]
            /\ Goto(u, "create_rev")
            /\ UNCHANGED resp
       ELSE /\ Return(u, "Database")
            /\ UNCHANGED <<items, revisions, next_id>>
    /\ UNCHANGED <<users, menus, menu_items, now, advances, budget, audit_log, sessions, sched, tick_errors>>

CreateRevision(u) ==
    /\ pc[u] = "create_rev"
    /\ IF req[u].id \in Ids
       THEN /\ create_revision(req[u].id, req[u].title, req[u].short_text,
                               req[u].content, u)
            /\ Goto(u, "audit")
            /\ UNCHANGED <<req, resp>>
       ELSE Return(u, "Database") /\ UNCHANGED revisions
    /\ UNCHANGED <<users, menus, menu_items, now, advances, budget, next_id, items, audit_log,
                   sessions, sched, tick_errors>>

\* The audit entry every mutating handler writes after its mutation; trash
\* returns right after it, the others read the row back first.
AuditVerb(op) == IF op = "restore_revision" THEN "update" ELSE op

Audit(u) ==
    /\ pc[u] = "audit"
    /\ log_action(u, AuditVerb(req[u].op), req[u].ct, req[u].id)
    /\ IF req[u].op = "trash"
       THEN Return(u, "Ok")
       ELSE Goto(u, "final_get") /\ UNCHANGED <<req, resp>>
    /\ UNCHANGED <<users, menus, menu_items, now, advances, budget, next_id, items, revisions,
                   sessions, sched, tick_errors>>

\* The INSERT of audit::log_action fails: the handler's `.await?` returns the
\* error; what the handler wrote before stays.
AuditFail(u) ==
    /\ pc[u] = "audit"
    /\ Return(u, "Database")
    /\ UNCHANGED <<now, advances, budget, next_id, db, sched, tick_errors>>

\* get_page / get_article by primary key.
get_item(ct, id) == IF id \in Table(ct) THEN Some(items[id]) ELSE None

\* The closing `get_page(pool, id).await` of create, update, restore, publish.
FinalGet(u) ==
    /\ pc[u] = "final_get"
    /\ Return(u, IF get_item(req[u].ct, req[u].id) = None THEN "NotFound" ELSE "Ok")
    /\ UNCHANGED <<now, advances, budget, next_id, db, sched, tick_errors>>

\* A storage step of a handler fails: `?` returns the error to the client.
Fail(u) ==
    /\ pc[u] # "idle"
    /\ Return(u, "Database")
    /\ UNCHANGED <<now, advances, budget, next_id, db, sched, tick_errors>>

\* ------------------------------------------------------------------ update

\* The rows a request may name: the stored rows, and one id that names none.
Stored == {<<items[i].ct, i>> : i \in Ids}
Targets == Stored \cup {<<"page", next_id>>}

\* A revision row is identified by its parent and its place among the
\* parent's revisions, oldest first; NoRevision names no row of either
\* revision table.
NoRevision == <<0, 0>>
RevisionIds ==
    UNION {{<<p, k>> : k \in 1 .. Len(revisions[p])} : p \in DOMAIN revisions}

UpdateInput(title, slug, content, short_text, status, publish_at) ==
    [title |-> title, slug |-> slug, content |-> content,
     short_text |-> short_text, status |-> status, publish_at |-> publish_at]

BeginUpdate(u, targets, inputs) ==
    \E tg \in targets, input \in inputs :
        Accept(u, "update_get",
               [op |-> "update", ct |-> tg[1], id |-> tg[2],
                revision_id |-> NoRevision,
                input |-> [input EXCEPT !.publish_at =
                              IF @ = 0 THEN Null ELSE EncodeDateTime(now + @)]])

\* Merge as it would be were an update a full replace: an absent field is
\* reset.
MergeReplacing(existing, input) ==
    [title |-> UnwrapOr(input.title, <<>>),
     slug |-> UnwrapOr(input.slug, existing.slug),
     content |-> UnwrapOr(input.content, ""),
     short_text |-> UnwrapOr(input.short_text, ""),
     status |-> UnwrapOr(input.status, "draft"),
     publish_at |-> input.publish_at]

\* Merge as it would be were a new title to bring a new slug with it.
MergeReslugging(existing, input) ==
    [title |-> UnwrapOr(input.title, existing.title),
     slug |-> IF input.slug = None /\ input.title # None
              THEN slugify(input.title[1])
              ELSE UnwrapOr(input.slug, existing.slug),
     content |-> UnwrapOr(input.content, existing.content),
     short_text |-> IF existing.ct = "article"
                    THEN UnwrapOr(input.short_text, existing.short_text)
                    ELSE existing.short_text,
     status |-> UnwrapOr(input.status, existing.status),
     publish_at |-> IF input.publish_at # Null THEN input.publish_at
                    ELSE existing.publish_at]

\* update_page / update_article up to the merge: the row is read once, and
\* every column the UPDATE will write is computed from it.
Merge(existing, input) ==
    [title |-> UnwrapOr(input.title, existing.title),
     slug |-> UnwrapOr(input.slug, existing.slug),
     content |-> UnwrapOr(input.content, existing.content),
     short_text |-> IF existing.ct = "article"
                    THEN UnwrapOr(input.short_text, existing.short_text)
                    ELSE existing.short_text,
     status |-> UnwrapOr(input.status, existing.status),
     publish_at |-> IF input.publish_at # Null THEN input.publish_at
                    ELSE existing.publish_at]

UpdateGet(u) ==
    /\ pc[u] = "update_get"
    /\ LET found == get_item(req[u].ct, req[u].id)
       IN  IF found = None
           THEN Return(u, "NotFound")
           ELSE LET merged == Merge(found[1], req[u].input)
                IN  /\ req' = [req EXCEPT ![u] =
                            [op |-> req[u].op, ct |-> req[u].ct, id |-> req[u].id,
                             revision_id |-> req[u].revision_id,
                             input |-> req[u].input, existing |-> found[1],
                             merged |-> merged]]
                    /\ Goto(u, IF merged.slug # found[1].slug
                               THEN "update_check" ELSE "update_write")
                    /\ UNCHANGED resp
    /\ UNCHANGED <<now, advances, budget, next_id, db, sched, tick_errors>>

UpdateCheck(u) ==
    /\ pc[u] = "update_check"
    /\ \E ok \in ensure_slug_unique(req[u].ct, req[u].merged.slug, Some(req[u].id)) :
        IF ok THEN Goto(u, "update_write") /\ UNCHANGED <<req, resp>>
        ELSE Return(u, "Conflict")
    /\ UNCHANGED <<now, advances, budget, next_id, db, sched, tick_errors>>

\* UPDATE pages SET title, slug, content, status, publish_at, updated_at
\* WHERE id = ?: every column is written; no row matches once it is erased.
UpdateRow(row, m) ==
    [row EXCEPT !.title = m.title, !.slug = m.slug, !.content = m.content,
                !.short_text = m.short_text, !.status = m.status,
                !.publish_at = m.publish_at, !.updated_at = TsIso(now)]

\* UpdateWrite as it would be were the editor to become the author.
UpdateWriteTakingOver(u) ==
    /\ pc[u] = "update_write"
    /\ IF req[u].id \notin Table(req[u].ct)
       THEN Goto(u, "update_rev") /\ UNCHANGED <<items, req, resp>>
       ELSE IF /\ SlugIndexAllows(req[u].ct, req[u].id, req[u].merged.slug)
               /\ StatusCheckAllows(req[u].merged.status)
       THEN /\ items' = [items EXCEPT ![req[u].id] =
                            [UpdateRow(@, req[u].merged) EXCEPT !.author_id = u]]
            /\ Goto(u, "update_rev")
            /\ UNCHANGED <<req, resp>>
       ELSE Return(u, "Database") /\ UNCHANGED items
    /\ UNCHANGED <<users, menus, menu_items, now, advances, budget, next_id, revisions, audit_log,
                   sessions, sched, tick_errors>>

UpdateWrite(u) ==
    /\ pc[u] = "update_write"
    /\ IF req[u].id \notin Table(req[u].ct)
       THEN Goto(u, "update_rev") /\ UNCHANGED <<items, req, resp>>
       ELSE IF /\ SlugIndexAllows(req[u].ct, req[u].id, req[u].merged.slug)
               /\ StatusCheckAllows(req[u].merged.status)
       THEN /\ items' = [items EXCEPT ![req[u].id] = UpdateRow(@, req[u].merged)]
            /\ Goto(u, "update_rev")
            /\ UNCHANGED <<req, resp>>
       ELSE Return(u, "Database") /\ UNCHANGED items
    /\ UNCHANGED <<users, menus, menu_items, now, advances, budget, next_id, revisions, audit_log,
                   sessions, sched, tick_errors>>

UpdateRevision(u) ==
    /\ pc[u] = "update_rev"
    /\ IF req[u].id \in Ids
       THEN /\ create_revision(req[u].id, req[u].merged.title,
                               req[u].merged.short_text, req[u].merged.content, u)
            /\ Goto(u, "audit")
            /\ UNCHANGED <<req, resp>>
       ELSE Return(u, "Database") /\ UNCHANGED revisions
    /\ UNCHANGED <<users, menus, menu_items, now, advances, budget, next_id, items, audit_log,
                   sessions, sched, tick_errors>>

\* -------------------------------------------------------- restore_revision

\* The revision ids a request may name: any stored revision, of the item the
\* request names or of another one, and one that names none.
BeginRestoreRevision(u, targets) ==
    \E tg \in targets, rid \in RevisionIds \cup {NoRevision} :
        Accept(u, "rr_select",
               [op |-> "restore_revision", ct |-> tg[1], id |-> tg[2],
                revision_id |-> rid])

\* RevisionOf as it would be were the SELECT to look the revision up by its
\* id alone.
RevisionOfAny(rid, ct, id) == rid \in RevisionIds

\* FROM page_revisions WHERE id = ? AND page_id = ?
RevisionOf(rid, ct, id) ==
    /\ rid \in RevisionIds
    /\ rid[1] \in Table(ct)
    /\ rid[1] = id

\* The SELECT of restore_revision, and the UpdatePage built from the row;
\* update_page does the rest.
RestoreRevisionSelect(u) ==
    /\ pc[u] = "rr_select"
    /\ IF RevisionOf(req[u].revision_id, req[u].ct, req[u].id)
       THEN LET revision == revisions[req[u].revision_id[1]][req[u].revision_id[2]]
            IN  /\ req' = [req EXCEPT ![u] =
                        [op |-> "restore_revision", ct |-> req[u].ct, id |-> req[u].id,
                         revision_id |-> req[u].revision_id,
                         input |-> UpdateInput(Some(revision.title), None,
                                               Some(revision.content),
                                               Some(revision.short_text), None, Null)]]
                /\ Goto(u, "update_get")
                /\ UNCHANGED resp
       ELSE Return(u, "NotFound")
    /\ UNCHANGED <<now, advances, budget, next_id, db, sched, tick_errors>>

\* ------------------------------------------------- trash, restore, publish

BeginTrash(u, targets) ==
    \E tg \in targets :
        Accept(u, "trash_get", [op |-> "trash", ct |-> tg[1], id |-> tg[2]])

BeginRestore(u, targets) ==
    \E tg \in targets :
        Accept(u, "restore_get", [op |-> "restore", ct |-> tg[1], id |-> tg[2]])

BeginPublish(u, targets) ==
    \E tg \in targets :
        Accept(u, "publish_get", [op |-> "publish", ct |-> tg[1], id |-> tg[2]])

\* trash_page and publish_page only verify that the row exists.
ExistsGet(u) ==
    /\ pc[u] \in {"trash_get", "publish_get"}
    /\ IF get_item(req[u].ct, req[u].id) = None
       THEN Return(u, "NotFound")
       ELSE /\ Goto(u, IF pc[u] = "trash_get" THEN "trash_write" ELSE "publish_write")
            /\ UNCHANGED <<req, resp>>
    /\ UNCHANGED <<now, advances, budget, next_id, db, sched, tick_errors>>

\* An UPDATE ... WHERE id = ? of one row; no row matches once it is erased.
WriteRow(u, row) ==
    items' = IF req[u].id \in Table(req[u].ct)
             THEN [items EXCEPT ![req[u].id] = row]
             ELSE items

\* The row the request names, as stored (any row when it is erased: the
\* UPDATE then matches nothing).
Target(u) ==
    IF req[u].id \in Ids THEN items[req[u].id]
    ELSE [ct |-> req[u].ct, status |-> "draft", trashed_at |-> Null,
          updated_at |-> Null]

\* TrashRow as it would be were a row already in the trash to keep the
\* trashed_at it has.
TrashRowKeepingFirst(row) ==
    [row EXCEPT !.status = "trashed",
                !.trashed_at = IF @ = Null THEN TsIso(now) ELSE @,
                !.updated_at = TsIso(now)]

\* SET status = 'trashed', trashed_at = strftime(...), updated_at = strftime(...)
TrashRow(row) ==
    [row EXCEPT !.status = "trashed", !.trashed_at = TsIso(now),
                !.updated_at = TsIso(now)]

\* TrashWrite as it would be were trash to record a revision of the row it
\* trashes.
TrashWriteRecording(u) ==
    /\ pc[u] = "trash_write"
    /\ WriteRow(u, TrashRow(Target(u)))
    /\ IF req[u].id \in Ids
       THEN create_revision(req[u].id, items[req[u].id].title,
                            items[req[u].id].short_text,
                            items[req[u].id].content, u)
       ELSE UNCHANGED revisions
    /\ Goto(u, "audit")
    /\ UNCHANGED <<users, menus, menu_items, now, advances, budget, next_id, audit_log,
                   sessions, req, resp, sched, tick_errors>>

TrashWrite(u) ==
    /\ pc[u] = "trash_write"
    /\ WriteRow(u, TrashRow(Target(u)))
    /\ Goto(u, "audit")
    /\ UNCHANGED <<users, menus, menu_items, now, advances, budget, next_id, revisions, audit_log,
                   sessions, req, resp, sched, tick_errors>>

\* PublishRow as it would be were publish to leave a trashed row alone.
PublishRowUnlessTrashed(row) ==
    IF row.status = "trashed" THEN row
    ELSE [row EXCEPT !.status = "published", !.updated_at = TsIso(now)]

\* SET status = 'published', updated_at = strftime(...)
PublishRow(row) ==
    [row EXCEPT !.status = "published", !.updated_at = TsIso(now)]

PublishWrite(u) ==
    /\ pc[u] = "publish_write"
    /\ WriteRow(u, PublishRow(Target(u)))
    /\ Goto(u, "audit")
    /\ UNCHANGED <<users, menus, menu_items, now, advances, budget, next_id, revisions, audit_log,
                   sessions, req, resp, sched, tick_errors>>

\* RestoreGuard as it would be without the status check.
RestoreGuardAny(existing) == TRUE

\* restore_page: the status guard reads the row; the UPDATE is a later step.
RestoreGuard(existing) == existing.status = "trashed"

RestoreGet(u) ==
    /\ pc[u] = "restore_get"
    /\ LET found == get_item(req[u].ct, req[u].id)
       IN  IF found = None THEN Return(u, "NotFound")
           ELSE IF ~RestoreGuard(found[1]) THEN Return(u, "BadRequest")
           ELSE Goto(u, "restore_write") /\ UNCHANGED <<req, resp>>
    /\ UNCHANGED <<now, advances, budget, next_id, db, sched, tick_errors>>

\* RestoreRow as it would be were a restored draft to lose its schedule.
RestoreRowUnscheduling(row) ==
    [row EXCEPT !.status = "draft", !.trashed_at = Null, !.publish_at = Null,
                !.updated_at = TsIso(now)]

\* SET status = 'draft', trashed_at = NULL, updated_at = strftime(...)
RestoreRow(row) ==
    [row EXCEPT !.status = "draft", !.trashed_at = Null,
                !.updated_at = TsIso(now)]

RestoreWrite(u) ==
    /\ pc[u] = "restore_write"
    /\ WriteRow(u, RestoreRow(Target(u)))
    /\ Goto(u, "audit")
    /\ UNCHANGED <<users, menus, menu_items, now, advances, budget, next_id, revisions, audit_log,
                   sessions, req, resp, sched, tick_errors>>

\* ---------------------------------------------------------- list_revisions

\* GET /api/admin/pages/{id}/revisions
BeginListRevisions(u, targets) ==
    \E tg \in targets :
        Accept(u, "list_get", [op |-> "list_revisions", ct |-> tg[1], id |-> tg[2]])

\* ListGet as it would be without the existence check: an unknown id gets an
\* empty list.
ListGetUnchecked(u) ==
    /\ pc[u] = "list_get"
    /\ Goto(u, "list_select")
    /\ UNCHANGED <<now, advances, budget, next_id, db, req, resp, sched, tick_errors>>

\* get_page(pool, page_id).await?
ListGet(u) ==
    /\ pc[u] = "list_get"
    /\ IF get_item(req[u].ct, req[u].id) = None
       THEN Return(u, "NotFound")
       ELSE Goto(u, "list_select") /\ UNCHANGED <<req, resp>>
    /\ UNCHANGED <<now, advances, budget, next_id, db, sched, tick_errors>>

\* ORDER BY created_at DESC over the revisions of one parent: the orders the
\* SELECT may return them in, as sequences of their places in the table
\* (1: the oldest).  created_at is the only sort key, so rows whose
\* created_at texts are equal come in any order.
NewestFirst(revs) ==
    {p \in [1 .. Len(revs) -> 1 .. Len(revs)] :
        /\ \A a, b \in 1 .. Len(revs) : a # b => p[a] # p[b]
        /\ \A a, b \in 1 .. Len(revs) :
              a < b => ~TextLess(revs[p[a]].created_at, revs[p[b]].created_at)}

\* SELECT ... FROM page_revisions WHERE page_id = ? ORDER BY created_at DESC
ListSelect(u) ==
    /\ pc[u] = "list_select"
    /\ \E rows \in NewestFirst(IF req[u].id \in DOMAIN revisions
                               THEN revisions[req[u].id] ELSE <<>>) :
          resp' = [resp EXCEPT ![u] = [op |-> req[u].op, result |-> "Ok",
                                       rows |-> rows]]
    /\ pc' = [pc EXCEPT ![u] = "idle"]
    /\ req' = [req EXCEPT ![u] = NoReq]
    /\ UNCHANGED <<now, advances, budget, next_id, db, sched, tick_errors>>

\* ---------------------------------------------------------- public lookups

\* Visible as it would be were the public lookups to use the filter of the
\* admin list.
VisibleUntrashed(row) == row.status # "trashed"

\* ... AND status = 'published'
Visible(row) == row.status = "published"

\* GET /api/pages/{slug}, GET /api/articles/{slug}
BeginPublicGet(u, cts, slugs) ==
    \E ct \in cts, slug \in slugs :
        Accept(u, "public_get", [op |-> "public_get", ct |-> ct, id |-> 0, slug |-> slug])

\* get_page_by_slug / get_article_by_slug: one SELECT.
PublicGet(u) ==
    /\ pc[u] = "public_get"
    /\ LET rows == {i \in Table(req[u].ct) :
                       items[i].slug = req[u].slug /\ Visible(items[i])}
       IN  resp' = [resp EXCEPT ![u] =
                       [op |-> "public_get",
                        result |-> IF rows = {} THEN "NotFound" ELSE "Ok",
                        rows |-> rows]]
    /\ pc' = [pc EXCEPT ![u] = "idle"]
    /\ req' = [req EXCEPT ![u] = NoReq]
    /\ UNCHANGED <<now, advances, budget, next_id, db, sched, tick_errors>>

\* GET /api/articles
BeginPublicList(u) ==
    Accept(u, "public_list", [op |-> "public_list", ct |-> "article", id |-> 0, rows |-> {}])

\* list_published_articles: the SELECT of the rows, then the SELECT COUNT(*).
PublicListRows(u) ==
    /\ pc[u] = "public_list"
    /\ req' = [req EXCEPT ![u].rows = {i \in Table("article") : Visible(items[i])}]
    /\ Goto(u, "public_count")
    /\ UNCHANGED <<now, advances, budget, next_id, db, resp, sched, tick_errors>>

PublicListCount(u) ==
    /\ pc[u] = "public_count"
    /\ resp' = [resp EXCEPT ![u] =
                   [op |-> "public_list", result |-> "Ok", rows |-> req[u].rows,
                    total |-> Cardinality({i \in Table("article") : Visible(items[i])})]]
    /\ pc' = [pc EXCEPT ![u] = "idle"]
    /\ req' = [req EXCEPT ![u] = NoReq]
    /\ UNCHANGED <<now, advances, budget, next_id, db, sched, tick_errors>>

\* ------------------------------------------------------------- trash sweep

\* Expired as it would be were the sweep to compare trashed_at with
\* datetime('now').
ExpiredAtOnce(row) ==
    /\ row.status = "trashed"
    /\ TextLess(row.trashed_at, TsSql(now))

\* status = 'trashed' AND trashed_at < datetime('now', '-30 days')
Expired(row) ==
    /\ row.status = "trashed"
    /\ TextLess(row.trashed_at, TsSql(now - Retention))

\* Delete as it would be were the revision tables declared without ON DELETE
\* CASCADE (or foreign keys left off): the rows of the parents go, their
\* revisions stay.
DeleteRowsOnly(gone) ==
    /\ items' = [i \in Ids \ gone |-> items[i]]
    /\ revisions' = revisions

\* DELETE FROM pages WHERE ...; ON DELETE CASCADE takes the revisions.
Delete(gone) ==
    /\ items' = [i \in Ids \ gone |-> items[i]]
    /\ revisions' = [i \in DOMAIN revisions \ gone |-> revisions[i]]

Sweep(ct) == Delete({i \in Table(ct) : Expired(items[i])})

\* EmptyEligible as it would be were "empty trash" to erase everything in the
\* trash.
EmptyEligibleAll(row) == row.status = "trashed"

\* api/trash.rs: status = 'trashed' AND trashed_at < datetime('now', '-30 days')
EmptyEligible(row) ==
    /\ row.status = "trashed"
    /\ TextLess(row.trashed_at, TsSql(now - Retention))

\* DELETE FROM pages / articles WHERE ... of the empty-trash handler.
EmptyTrash(ct) == Delete({i \in Table(ct) : EmptyEligible(items[i])})

\* POST /api/admin/trash/empty
BeginEmpty(u) ==
    Accept(u, "empty_pages", [op |-> "empty", ct |-> "page", id |-> 0])

EmptyPages(u) ==
    /\ pc[u] = "empty_pages"
    /\ EmptyTrash("page")
    /\ Goto(u, "empty_articles")
    /\ UNCHANGED <<users, menus, menu_items, now, advances, budget, next_id, audit_log, sessions,
                   req, resp, sched, tick_errors>>

EmptyArticles(u) ==
    /\ pc[u] = "empty_articles"
    /\ EmptyTrash("article")
    /\ Return(u, "Ok")
    /\ UNCHANGED <<users, menus, menu_items, now, advances, budget, next_id, audit_log, sessions,
                   sched, tick_errors>>

\* ---------------------------------------------------------------- sessions

\* create_session: expires_at = datetime('now', '604800 seconds').
BeginLogin(u) ==
    Accept(u, "create_session", [op |-> "login", ct |-> "page", id |-> 0])

CreateSession(u) ==
    /\ pc[u] = "create_session"
    /\ sessions' = sessions \cup
          {[user_id |-> u, expires_at |-> TsSql(now + SessionTtl)]}
    /\ Return(u, "Ok")
    /\ UNCHANGED <<users, menus, menu_items, now, advances, budget, next_id, items, revisions,
                   audit_log, sched, tick_errors>>

\* validate_session: ... AND s.expires_at > datetime('now')
SessionValid(s) == TextLess(TsSql(now), s.expires_at)

\* The authentication middleware of a request with the client's cookie.
BeginValidate(u) ==
    Accept(u, "validate_session", [op |-> "validate", ct |-> "page", id |-> 0])

ValidateSession(u) ==
    /\ pc[u] = "validate_session"
    /\ Return(u, IF \E s \in sessions : s.user_id = u /\ SessionValid(s)
                 THEN "Ok" ELSE "Unauthorized")
    /\ UNCHANGED <<now, advances, budget, next_id, db, sched, tick_errors>>

\* cleanup_expired_sessions: DELETE FROM sessions WHERE expires_at <=
\* datetime('now'); the sessions it leaves.
CleanupExpired(s) == TextLeq(s.expires_at, TsSql(now))
cleanup_expired_sessions == {s \in sessions : ~CleanupExpired(s)}

\* --------------------------------------------------------------- scheduler

\* interval.tick().await returns: run_scheduled_tasks starts.
Tick ==
    /\ sched = "sleep"
    /\ sched' = "promote_pages"
    /\ UNCHANGED <<now, advances, budget, next_id, db, pc, req, resp, tick_errors>>

\* Due as it would be were the promotion to ignore publish_at.
DueWhenScheduled(row) == row.status = "scheduled"

\* status = 'scheduled' AND publish_at <= datetime('now')
Due(row) ==
    /\ row.status = "scheduled"
    /\ TextLeq(row.publish_at, TsSql(now))

\* UPDATE pages SET status = 'published', updated_at = datetime('now') WHERE ...
Promote(ct) ==
    items' = [i \in Ids |->
                IF items[i].ct = ct /\ Due(items[i])
                THEN [items[i] EXCEPT !.status = "published",
                                      !.updated_at = TsSql(now)]
                ELSE items[i]]

PromotePages ==
    /\ sched = "promote_pages"
    /\ Promote("page")
    /\ sched' = "promote_articles"
    /\ UNCHANGED <<users, menus, menu_items, now, advances, budget, next_id, revisions, audit_log,
                   sessions, pc, req, resp, tick_errors>>

PromoteArticles ==
    /\ sched = "promote_articles"
    /\ Promote("article")
    /\ sched' = "sweep_pages"
    /\ UNCHANGED <<users, menus, menu_items, now, advances, budget, next_id, revisions, audit_log,
                   sessions, pc, req, resp, tick_errors>>

SweepPages ==
    /\ sched = "sweep_pages"
    /\ Sweep("page")
    /\ sched' = "sweep_articles"
    /\ UNCHANGED <<users, menus, menu_items, now, advances, budget, next_id, audit_log, sessions,
                   pc, req, resp, tick_errors>>

SweepArticles ==
    /\ sched = "sweep_articles"
    /\ Sweep("article")
    /\ sched' = "sessions"
    /\ UNCHANGED <<users, menus, menu_items, now, advances, budget, next_id, audit_log, sessions,
                   pc, req, resp, tick_errors>>

\* DELETE FROM sessions WHERE expires_at < datetime('now')
SessionExpired(s) == TextLess(s.expires_at, TsSql(now))

ExpireSessions ==
    /\ sched = "sessions"
    /\ sessions' = {s \in sessions : ~SessionExpired(s)}
    /\ sched' = "sleep"
    /\ UNCHANGED <<users, menus, menu_items, now, advances, budget, next_id, items, revisions,
                   audit_log, pc, req, resp, tick_errors>>

\* SchedFail as it would be were each query's error logged and the tick to go
\* on with the next query.
SchedFailContinues ==
    /\ sched # "sleep"
    /\ tick_errors < MaxFailures
    /\ sched' = CASE sched = "promote_pages" -> "promote_articles"
                  [] sched = "promote_articles" -> "sweep_pages"
                  [] sched = "sweep_pages" -> "sweep_articles"
                  [] sched = "sweep_articles" -> "sessions"
                  [] OTHER -> "sleep"
    /\ tick_errors' = tick_errors + 1
    /\ UNCHANGED <<now, advances, budget, next_id, db, pc, req, resp>>

\* A query of the tick fails: `?` returns the error, the loop logs it and
\* waits for the next tick.
SchedFail ==
    /\ sched # "sleep"
    /\ tick_errors < MaxFailures
    /\ sched' = "sleep"
    /\ tick_errors' = tick_errors + 1
    /\ UNCHANGED <<now, advances, budget, next_id, db, pc, req, resp>>

\* ------------------------------------------------------------------- clock

\* Time passes: a slot, or just over the retention window.
Jumps == {1, Retention + 1}

AdvanceBy(jumps) ==
    /\ advances < MaxAdvances
    /\ \E d \in jumps : now' = now + d
    /\ advances' = advances + 1
    /\ UNCHANGED <<budget, next_id, db, pc, req, resp, sched, tick_errors>>

Advance == AdvanceBy(Jumps)

\* ---------------------------------------------------------- specifications

\* No request is in flight and the scheduler sleeps.
Quiet == sched = "sleep" /\ \A u \in Users : pc[u] = "idle"

\* The storage steps of the handlers, and the queries of a tick.
CreateStep(u) ==
    \/ CreateCheck(u)
    \/ CreateInsert(u)
    \/ CreateRevision(u)
    \/ Audit(u)
    \/ FinalGet(u)

UpdateStep(u) ==
    \/ UpdateGet(u)
    \/ UpdateCheck(u)
    \/ UpdateWrite(u)
    \/ UpdateRevision(u)
    \/ RestoreRevisionSelect(u)

LifeStep(u) ==
    \/ ExistsGet(u)
    \/ TrashWrite(u)
    \/ PublishWrite(u)
    \/ RestoreGet(u)
    \/ RestoreWrite(u)

EmptyStep(u) ==
    \/ EmptyPages(u)
    \/ EmptyArticles(u)

TickStep ==
    \/ PromotePages
    \/ PromoteArticles
    \/ SweepPages
    \/ SweepArticles
    \/ ExpireSessions

DefaultCreate == CreateInput(<<"H", "i">>, None, None, None, 0)
TitleOnly == UpdateInput(Some(NewTitle), None, None, None, None, 0)

\* Spec: one client; every content operation, the ticks of the scheduler and
\* the clock, one at a time.
SpecUpdates ==
    {TitleOnly,
     UpdateInput(None, Some(<<"o", "k">>), None, None, Some("trashed"), 0)}

Begin(u) ==
    \/ BeginCreate(u, ContentTypes, {DefaultCreate})
    \/ BeginUpdate(u, Stored, SpecUpdates)
    \/ BeginRestoreRevision(u, Stored)
    \/ BeginTrash(u, Stored)
    \/ BeginPublish(u, Stored)
    \/ BeginRestore(u, Stored)
    \/ BeginEmpty(u)

Next ==
    \/ Quiet /\ Begin("u1")
    \/ CreateStep("u1")
    \/ UpdateStep("u1")
    \/ LifeStep("u1")
    \/ EmptyStep("u1")
    \/ Quiet /\ Tick
    \/ TickStep
    \/ Quiet /\ Advance

Spec == Init /\ [][Next]_vars

\* SpecSlug: two clients create and update concurrently; their handlers
\* interleave at every storage step.
SlugCreates ==
    {DefaultCreate,
     CreateInput(<<"H", "i", "!">>, None, Some("c1"), None, 0),
     CreateInput(<<"H", "i", "!">>, Some(<<"o", "k">>), Some("c1"), None, 0)}

SlugUpdates ==
    {UpdateInput(None, Some(<<"o", "k">>), None, None, None, 0),
     UpdateInput(None, Some(<<"h", "i">>), None, None, None, 0)}

NextSlug ==
    \E u \in Users :
        \/ BeginCreate(u, ContentTypes, SlugCreates)
        \/ BeginUpdate(u, Stored, SlugUpdates)
        \/ CreateStep(u)
        \/ UpdateGet(u)
        \/ UpdateCheck(u)
        \/ UpdateWrite(u)
        \/ UpdateRevision(u)

SpecSlug == Init /\ [][NextSlug]_vars

\* SpecLife: two clients create, trash, restore and publish concurrently.
LifeCreates ==
    {DefaultCreate,
     CreateInput(<<"H", "i">>, Some(<<"o", "k">>), None, Some("scheduled"), 1)}

NextLife ==
    \E u \in Users :
        \/ BeginCreate(u, ContentTypes, LifeCreates)
        \/ BeginTrash(u, Targets)
        \/ BeginPublish(u, Targets)
        \/ BeginRestore(u, Targets)
        \/ CreateStep(u)
        \/ LifeStep(u)

SpecLife == Init /\ [][NextLife]_vars

\* SpecEdit: one client creates, updates and restores revisions, one request
\* at a time.
EditCreates ==
    {DefaultCreate,
     CreateInput(<<"H", "i", "!">>, Some(<<"o", "k">>), Some("c1"), Some("scheduled"), 1)}

EditUpdates ==
    {TitleOnly,
     UpdateInput(None, None, Some(NewContent), Some("s1"), None, 0),
     UpdateInput(None, Some(<<"o", "k">>), None, None, Some("trashed"), 0)}

NextEdit ==
    \/ Quiet /\ BeginCreate("u1", ContentTypes, EditCreates)
    \/ Quiet /\ BeginUpdate("u1", Targets, EditUpdates)
    \/ Quiet /\ BeginRestoreRevision("u1", Targets)
    \/ CreateStep("u1")
    \/ UpdateStep("u1")

SpecEdit == Init /\ [][NextEdit]_vars

\* SpecSched: one client creates scheduled items, trashes and logs in; the
\* scheduler ticks between the requests, a query of a tick may fail, and the
\* clock moves between them.
SchedCreates == {CreateInput(<<"H", "i">>, None, None, Some("scheduled"), -1)}

NextSched ==
    \/ Quiet /\ BeginCreate("u1", ContentTypes, SchedCreates)
    \/ Quiet /\ BeginTrash("u1", Stored)
    \/ Quiet /\ BeginLogin("u1")
    \/ CreateStep("u1")
    \/ ExistsGet("u1")
    \/ TrashWrite("u1")
    \/ CreateSession("u1")
    \/ Quiet /\ Tick
    \/ TickStep
    \/ SchedFail
    \/ Quiet /\ Advance

SpecSched == Init /\ [][NextSched]_vars

\* SpecAudit: one client creates, updates, publishes, trashes and restores;
\* the audit write of a request may fail.
NextAudit ==
    \/ Quiet /\ BeginCreate("u1", ContentTypes, {DefaultCreate})
    \/ Quiet /\ BeginUpdate("u1", Stored, {TitleOnly})
    \/ Quiet /\ BeginTrash("u1", Stored)
    \/ Quiet /\ BeginPublish("u1", Stored)
    \/ Quiet /\ BeginRestore("u1", Stored)
    \/ CreateStep("u1")
    \/ UpdateGet("u1")
    \/ UpdateWrite("u1")
    \/ UpdateRevision("u1")
    \/ LifeStep("u1")
    \/ AuditFail("u1")

SpecAudit == Init /\ [][NextAudit]_vars

\* SpecPurge: one client creates, trashes and empties the trash; an
\* empty-trash call and a tick of the scheduler interleave at every query.
NextPurge ==
    \/ Quiet /\ BeginCreate("u1", ContentTypes, {DefaultCreate})
    \/ Quiet /\ BeginTrash("u1", Stored)
    \/ BeginEmpty("u1")
    \/ CreateStep("u1")
    \/ ExistsGet("u1")
    \/ TrashWrite("u1")
    \/ EmptyStep("u1")
    \/ Tick
    \/ TickStep
    \/ Quiet /\ Advance

SpecPurge == Init /\ [][NextPurge]_vars

\* SpecRevert: one client creates an item, edits it and sets its status, and
\* restores revisions, one request at a time.
RevertUpdates ==
    EditUpdates \cup {UpdateInput(None, None, None, None, Some("published"), 0)}

NextRevert ==
    \/ Quiet /\ BeginCreate("u1", ContentTypes, EditCreates)
    \/ Quiet /\ BeginUpdate("u1", Stored, RevertUpdates)
    \/ Quiet /\ BeginRestoreRevision("u1", Stored)
    \/ CreateStep("u1")
    \/ UpdateStep("u1")

SpecRevert == InitWith({0}, MaxRequests + 1) /\ [][NextRevert]_vars

\* SpecCycle: one client takes items through their whole life (create as
\* draft or scheduled, update, trash, publish, restore) while the scheduler
\* ticks and the clock moves, one at a time.
CycleCreates == {DefaultCreate} \cup SchedCreates

NextCycle ==
    \/ Quiet /\ BeginCreate("u1", ContentTypes, CycleCreates)
    \/ Quiet /\ BeginUpdate("u1", Stored, {TitleOnly})
    \/ Quiet /\ BeginTrash("u1", Stored)
    \/ Quiet /\ BeginPublish("u1", Stored)
    \/ Quiet /\ BeginRestore("u1", Stored)
    \/ CreateStep("u1")
    \/ UpdateGet("u1")
    \/ UpdateWrite("u1")
    \/ UpdateRevision("u1")
    \/ LifeStep("u1")
    \/ Quiet /\ Tick
    \/ TickStep
    \/ Quiet /\ Advance

SpecCycle == Init /\ [][NextCycle]_vars

\* SpecAbsent: one client creates and trashes items and sends requests for
\* any id: a stored one, one that was erased, or one never handed out; the
\* scheduler ticks and the clock moves between the requests.
AnyTarget == ContentTypes \X (1 .. next_id)

NextAbsent ==
    \/ Quiet /\ BeginCreate("u1", ContentTypes, {DefaultCreate})
    \/ Quiet /\ BeginUpdate("u1", AnyTarget, {TitleOnly})
    \/ Quiet /\ BeginTrash("u1", AnyTarget)
    \/ Quiet /\ BeginPublish("u1", AnyTarget)
    \/ Quiet /\ BeginRestore("u1", AnyTarget)
    \/ Quiet /\ BeginListRevisions("u1", AnyTarget)
    \/ CreateStep("u1")
    \/ UpdateGet("u1")
    \/ UpdateWrite("u1")
    \/ UpdateRevision("u1")
    \/ LifeStep("u1")
    \/ ListGet("u1")
    \/ ListSelect("u1")
    \/ Quiet /\ Tick
    \/ TickStep
    \/ Quiet /\ Advance

SpecAbsent == Init /\ [][NextAbsent]_vars

\* SpecAuthor: two clients work on the same items, one request at a time:
\* either of them creates, updates, restores revisions, publishes, trashes
\* and restores, and the scheduler ticks between the requests.
NextAuthor ==
    \/ \E u \in Users :
          \/ Quiet /\ BeginCreate(u, ContentTypes, SchedCreates)
          \/ Quiet /\ BeginUpdate(u, Stored, {TitleOnly})
          \/ Quiet /\ BeginRestoreRevision(u, Stored)
          \/ Quiet /\ BeginTrash(u, Stored)
          \/ Quiet /\ BeginPublish(u, Stored)
          \/ Quiet /\ BeginRestore(u, Stored)
          \/ CreateStep(u)
          \/ UpdateGet(u)
          \/ UpdateWrite(u)
          \/ UpdateRevision(u)
          \/ RestoreRevisionSelect(u)
          \/ LifeStep(u)
    \/ Quiet /\ Tick
    \/ TickStep

SpecAuthor == Init /\ [][NextAuthor]_vars

\* SpecStatus: one client creates and updates with any status text, one of
\* the four or another, and publishes, trashes and restores; the scheduler
\* ticks between the requests.
StatusInputs == Statuses \cup {"archived"}

StatusCreates ==
    {CreateInput(<<"H", "i">>, None, None, None, 0)} \cup
    {CreateInput(<<"H", "i">>, None, None, Some(s), -1) : s \in StatusInputs}

StatusUpdates ==
    {UpdateInput(None, None, None, None, Some(s), 0) : s \in StatusInputs}

NextStatus ==
    \/ Quiet /\ BeginCreate("u1", ContentTypes, StatusCreates)
    \/ Quiet /\ BeginUpdate("u1", Stored, StatusUpdates)
    \/ Quiet /\ BeginTrash("u1", Stored)
    \/ Quiet /\ BeginPublish("u1", Stored)
    \/ Quiet /\ BeginRestore("u1", Stored)
    \/ CreateStep("u1")
    \/ UpdateGet("u1")
    \/ UpdateWrite("u1")
    \/ UpdateRevision("u1")
    \/ LifeStep("u1")
    \/ Quiet /\ Tick
    \/ TickStep

SpecStatus == Init /\ [][NextStatus]_vars

\* SpecOrphan: u1 creates, trashes and updates items while the scheduler
\* ticks and u2 empties the trash; an update, a tick and an empty-trash call
\* interleave at every storage step.
NextOrphan ==
    \/ Quiet /\ BeginCreate("u1", ContentTypes, {DefaultCreate})
    \/ Quiet /\ BeginTrash("u1", Stored)
    \/ BeginUpdate("u1", Stored, {TitleOnly})
    \/ BeginEmpty("u2")
    \/ CreateStep("u1")
    \/ ExistsGet("u1")
    \/ TrashWrite("u1")
    \/ UpdateGet("u1")
    \/ UpdateWrite("u1")
    \/ UpdateRevision("u1")
    \/ EmptyStep("u2")
    \/ Tick
    \/ TickStep
    \/ Quiet /\ Advance

SpecOrphan == Init /\ [][NextOrphan]_vars

\* SpecSafe: one client creates and updates, with slugs derived from the
\* title and with slugs it supplies itself, as it types them.
SafeCreates ==
    {CreateInput(<<"H", "i", "!">>, None, None, None, 0),
     CreateInput(<<"H", "i">>, Some(<<"o", "k">>), None, None, 0),
     CreateInput(<<"H", "i">>, Some(<<"H", "i", " ", "!">>), None, None, 0)}

SafeUpdates ==
    {TitleOnly,
     UpdateInput(None, Some(<<"o", "-", "k">>), None, None, None, 0),
     UpdateInput(None, Some(<<"O", "k", " ", "!">>), None, None, None, 0)}

NextSafe ==
    \/ Quiet /\ BeginCreate("u1", ContentTypes, SafeCreates)
    \/ Quiet /\ BeginUpdate("u1", Stored, SafeUpdates)
    \/ CreateStep("u1")
    \/ UpdateGet("u1")
    \/ UpdateCheck("u1")
    \/ UpdateWrite("u1")
    \/ UpdateRevision("u1")

SpecSafe == Init /\ [][NextSafe]_vars

\* SpecPublic: u1 creates, publishes and trashes items and the scheduler
\* ticks, while u2, unauthenticated, looks pages and articles up by slug
\* and lists the articles; the reads interleave with every storage step.
NextPublic ==
    \/ BeginCreate("u1", ContentTypes, CycleCreates)
    \/ BeginPublish("u1", Stored)
    \/ BeginTrash("u1", Stored)
    \/ CreateStep("u1")
    \/ ExistsGet("u1")
    \/ PublishWrite("u1")
    \/ TrashWrite("u1")
    \/ BeginPublicGet("u2", ContentTypes, {<<"h", "i">>})
    \/ BeginPublicList("u2")
    \/ PublicGet("u2")
    \/ PublicListRows("u2")
    \/ PublicListCount("u2")
    \/ Tick
    \/ TickStep

SpecPublic == InitWith({0}, MaxRequests + 1) /\ [][NextPublic]_vars

\* SpecSession: a client logs in and sends authenticated requests, the
\* scheduler ticks, and the clock moves by a slot, to the slot before a
\* session's expiry is due, or by the whole lifetime of a session.
SessionJumps == {1, SessionTtl - 1, SessionTtl}

NextSession ==
    \/ \E u \in Users :
          \/ Quiet /\ BeginLogin(u)
          \/ Quiet /\ BeginValidate(u)
          \/ CreateSession(u)
          \/ ValidateSession(u)
    \/ Quiet /\ Tick
    \/ TickStep
    \/ Quiet /\ AdvanceBy(SessionJumps)

SpecSession == Init /\ [][NextSession]_vars

\* ------------------------------------------------------------------- menus

\* The menu the requests name, and the item lists they supply (labels, in
\* sort_order 1, 2, ...).
MenuName == "main"
MenuInputs == {<<"a", "b">>, <<"c", "d">>}

\* The rows of menu_items that belong to a menu, in insertion order.
ItemsOf(menu_id) == SelectSeq(menu_items, LAMBDA r : r.menu_id = menu_id)

\* ORDER BY sort_order ASC: the orders the SELECT may return the rows in;
\* rows of equal sort_order come in any order.
BySortOrder(rows) ==
    {[k \in 1 .. Len(rows) |-> rows[p[k]]] :
        p \in {q \in [1 .. Len(rows) -> 1 .. Len(rows)] :
                 /\ \A a, b \in 1 .. Len(rows) : a # b => q[a] # q[b]
                 /\ \A a, b \in 1 .. Len(rows) :
                       a < b => rows[q[a]].sort_order <= rows[q[b]].sort_order}}

Labels(rows) == [k \in 1 .. Len(rows) |-> rows[k].label]

\* get_menu: the menu row by name, then its items.
BeginGetMenu(u) ==
    Accept(u, "getmenu_select", [op |-> "get_menu", name |-> MenuName])

GetMenuSelect(u) ==
    /\ pc[u] = "getmenu_select"
    /\ IF req[u].name \in menus
       THEN Goto(u, "getmenu_items") /\ UNCHANGED <<req, resp>>
       ELSE Return(u, "NotFound")
    /\ UNCHANGED <<now, advances, budget, next_id, db, sched, tick_errors>>

GetMenuItems(u) ==
    /\ pc[u] = "getmenu_items"
    /\ \E rows \in BySortOrder(ItemsOf(req[u].name)) :
          resp' = [resp EXCEPT ![u] =
                      [op |-> req[u].op, result |-> "Ok", rows |-> rows]]
    /\ pc' = [pc EXCEPT ![u] = "idle"]
    /\ req' = [req EXCEPT ![u] = NoReq]
    /\ UNCHANGED <<now, advances, budget, next_id, db, sched, tick_errors>>

\* update_menu: find the menu or create it, delete its items, insert the
\* supplied ones one by one, write the audit row.  Each statement is sent to
\* the pool on its own.
BeginUpdateMenu(u, inputs) ==
    \E list \in inputs :
        Accept(u, "menu_select",
               [op |-> "update_menu", name |-> MenuName, items |-> list,
                k |-> 1])

MenuSelect(u) ==
    /\ pc[u] = "menu_select"
    /\ Goto(u, IF req[u].name \in menus THEN "menu_delete" ELSE "menu_create")
    /\ UNCHANGED <<now, advances, budget, next_id, db, req, resp, sched,
                   tick_errors>>

\* INSERT INTO menus (id, name): the menu's name stands for its id.
MenuCreate(u) ==
    /\ pc[u] = "menu_create"
    /\ menus' = menus \cup {req[u].name}
    /\ Goto(u, "menu_delete")
    /\ UNCHANGED <<users, now, advances, budget, next_id, items, revisions,
                   audit_log, sessions, menu_items, req, resp, sched,
                   tick_errors>>

\* DELETE FROM menu_items WHERE menu_id = ?
MenuDelete(u) ==
    /\ pc[u] = "menu_delete"
    /\ menu_items' = SelectSeq(menu_items, LAMBDA r : r.menu_id # req[u].name)
    /\ Goto(u, IF Len(req[u].items) = 0 THEN "menu_audit" ELSE "menu_insert")
    /\ UNCHANGED <<users, now, advances, budget, next_id, items, revisions,
                   audit_log, sessions, menus, req, resp, sched, tick_errors>>

\* One turn of `for item in items`: INSERT INTO menu_items.
MenuInsert(u) ==
    /\ pc[u] = "menu_insert"
    /\ menu_items' = Append(menu_items,
                            [menu_id |-> req[u].name,
                             label |-> req[u].items[req[u].k],
                             sort_order |-> req[u].k])
    /\ req' = [req EXCEPT ![u].k = @ + 1]
    /\ Goto(u, IF req[u].k = Len(req[u].items) THEN "menu_audit"
                                               ELSE "menu_insert")
    /\ UNCHANGED <<users, now, advances, budget, next_id, items, revisions,
                   audit_log, sessions, menus, resp, sched, tick_errors>>

MenuAudit(u) ==
    /\ pc[u] = "menu_audit"
    /\ log_action(u, "update", "menu", req[u].name)
    /\ Return(u, "Ok")
    /\ UNCHANGED <<users, now, advances, budget, next_id, items, revisions,
                   sessions, menus, menu_items, sched, tick_errors>>

MenuStep(u) ==
    \/ GetMenuSelect(u)
    \/ GetMenuItems(u)
    \/ MenuSelect(u)
    \/ MenuCreate(u)
    \/ MenuDelete(u)
    \/ MenuInsert(u)
    \/ MenuAudit(u)

\* Two clients replace and read the items of one menu, their statements
\* interleaving freely; the menu's row is created by a request that runs
\* alone.
NextMenu ==
    \E u \in Users :
        \/ (Quiet \/ menus # {}) /\ BeginUpdateMenu(u, MenuInputs)
        \/ BeginGetMenu(u)
        \/ MenuStep(u)

SpecMenu == InitWith({0}, MaxRequests + 1) /\ [][NextMenu]_vars

\* SpecRetrash: one client, one request at a time, with the ticks and the
\* clock.  Items are trashed by trash and by an update that sets the status,
\* and leave the trash through publish; trash and update are only sent for
\* items outside the trash, so a trashed row was last written by the request
\* that trashed it.
Live == {tg \in Stored : items[tg[2]].status # "trashed"}

TrashingUpdate == UpdateInput(None, None, None, None, Some("trashed"), 0)

NextRetrash ==
    \/ Quiet /\ BeginCreate("u1", ContentTypes, {DefaultCreate})
    \/ Quiet /\ BeginUpdate("u1", Live, {TrashingUpdate})
    \/ Quiet /\ BeginTrash("u1", Live)
    \/ Quiet /\ BeginPublish("u1", Stored)
    \/ CreateStep("u1")
    \/ UpdateGet("u1")
    \/ UpdateWrite("u1")
    \/ UpdateRevision("u1")
    \/ ExistsGet("u1")
    \/ TrashWrite("u1")
    \/ PublishWrite("u1")
    \/ Quiet /\ Tick
    \/ TickStep
    \/ Quiet /\ Advance

SpecRetrash == InitWith({0}, MaxRequests + 1) /\ [][NextRetrash]_vars

\* SpecRace: two clients work on the same items.  Creates and trashes run
\* alone; restores, publishes and title updates interleave freely, storage
\* step by storage step.
NextRace ==
    \E u \in Users :
        \/ Quiet /\ BeginCreate(u, ContentTypes, {DefaultCreate})
        \/ Quiet /\ BeginTrash(u, Stored)
        \/ BeginRestore(u, Stored)
        \/ BeginPublish(u, Stored)
        \/ BeginUpdate(u, Stored, {TitleOnly})
        \/ CreateStep(u)
        \/ UpdateGet(u)
        \/ UpdateWrite(u)
        \/ UpdateRevision(u)
        \/ LifeStep(u)

SpecRace == InitWith({0}, MaxRequests + 1) /\ [][NextRace]_vars

\* SpecCoedit: two clients edit the same items: title updates and
\* restore_revision calls interleave freely, storage step by storage step;
\* creates run alone.
NextCoedit ==
    \E u \in Users :
        \/ Quiet /\ BeginCreate(u, ContentTypes, {DefaultCreate})
        \/ BeginUpdate(u, Stored, {TitleOnly})
        \/ BeginRestoreRevision(u, Stored)
        \/ CreateStep(u)
        \/ UpdateGet(u)
        \/ UpdateWrite(u)
        \/ UpdateRevision(u)
        \/ RestoreRevisionSelect(u)

SpecCoedit == Init /\ [][NextCoedit]_vars

\* SpecCrash: one client creates and updates, one request at a time; any
\* storage step of a request may fail, and the request then returns the error.
NextCrash ==
    \/ Quiet /\ BeginCreate("u1", ContentTypes, {DefaultCreate})
    \/ Quiet /\ BeginUpdate("u1", Stored, {TitleOnly})
    \/ CreateStep("u1")
    \/ UpdateGet("u1")
    \/ UpdateWrite("u1")
    \/ UpdateRevision("u1")
    \/ Fail("u1")

SpecCrash == Init /\ [][NextCrash]_vars

\* SpecPromote: one client creates drafts and scheduled items whose
\* publish_at is past, future or absent, and trashes and publishes them, one
\* request at a time, with the ticks and the clock.
PromoteCreates ==
    {DefaultCreate} \cup
    {CreateInput(<<"H", "i">>, None, None, Some("scheduled"), d) : d \in {-1, 0, 1}}

NextPromote ==
    \/ Quiet /\ BeginCreate("u1", ContentTypes, PromoteCreates)
    \/ Quiet /\ BeginTrash("u1", Stored)
    \/ Quiet /\ BeginPublish("u1", Stored)
    \/ CreateStep("u1")
    \/ ExistsGet("u1")
    \/ TrashWrite("u1")
    \/ PublishWrite("u1")
    \/ Quiet /\ Tick
    \/ TickStep
    \/ Quiet /\ Advance

SpecPromote == Init /\ [][NextPromote]_vars

\* ------------------------------------------------------------------- users

Roles == {"admin", "editor"}

Admins == {p \in DOMAIN users : users[p].role = "admin"}

\* GET /api/auth/callback: the identity provider has named the person.
BeginCallback(u) ==
    Accept(u, "callback_count", [op |-> "callback", role |-> "editor"])

\* SELECT COUNT(*) FROM users; the first user gets admin, the others editor.
CallbackCount(u) ==
    /\ pc[u] = "callback_count"
    /\ req' = [req EXCEPT ![u].role =
                  IF Cardinality(DOMAIN users) = 0 THEN "admin" ELSE "editor"]
    /\ Goto(u, "callback_upsert")
    /\ UNCHANGED <<now, advances, budget, next_id, db, resp, sched, tick_errors>>

\* INSERT INTO users ... ON CONFLICT(external_id) DO UPDATE SET email,
\* display_name, last_login: a returning person keeps the row's role.
CallbackUpsert(u) ==
    /\ pc[u] = "callback_upsert"
    /\ users' = IF u \in DOMAIN users THEN users
                ELSE users @@ (u :> [role |-> req[u].role])
    /\ Goto(u, "create_session")
    /\ UNCHANGED <<now, advances, budget, next_id, items, revisions,
                   audit_log, sessions, menus, menu_items, req, resp, sched,
                   tick_errors>>

\* PUT /api/admin/users/:id/role, behind require_admin.
BeginRoleChange(u, targets, roles) ==
    \E t \in targets, r \in roles :
        Accept(u, "require_admin",
               [op |-> "update_user_role", target |-> t, role |-> r,
                current_user |-> [role |-> "editor"]])

\* require_admin: validate_session joins the session to its user; the row
\* read here is the handler's current_user.
RequireAdmin(u) ==
    /\ pc[u] = "require_admin"
    /\ IF ~(u \in DOMAIN users
            /\ \E s \in sessions : s.user_id = u /\ SessionValid(s))
       THEN Return(u, "Unauthorized")
       ELSE IF users[u].role # "admin"
       THEN Return(u, "Forbidden")
       ELSE /\ req' = [req EXCEPT ![u].current_user = users[u]]
            /\ Goto(u, "role_write")
            /\ UNCHANGED resp
    /\ UNCHANGED <<now, advances, budget, next_id, db, sched, tick_errors>>

\* update_user_role: the role is validated, a change of the caller's own role
\* is refused, then UPDATE users SET role = ? WHERE id = ?.
RoleWrite(u) ==
    /\ pc[u] = "role_write"
    /\ IF req[u].role \notin Roles
       THEN Return(u, "BadRequest") /\ UNCHANGED users
       ELSE IF req[u].target = u /\ req[u].role # req[u].current_user.role
       THEN Return(u, "BadRequest") /\ UNCHANGED users
       ELSE IF req[u].target \notin DOMAIN users
       THEN Return(u, "NotFound") /\ UNCHANGED users
       ELSE /\ users' = [users EXCEPT ![req[u].target].role = req[u].role]
            /\ Return(u, "Ok")
    /\ UNCHANGED <<now, advances, budget, next_id, items, revisions,
                   audit_log, sessions, menus, menu_items, sched, tick_errors>>

\* SpecBootstrap: the two persons log in, and log in again; their callbacks
\* interleave at every storage step.
NextBootstrap ==
    \E u \in Users :
        \/ BeginCallback(u)
        \/ CallbackCount(u)
        \/ CallbackUpsert(u)
        \/ CreateSession(u)

SpecBootstrap == InitWith({0}, MaxRequests + 1) /\ [][NextBootstrap]_vars

\* SpecRoles: the two persons log in, one at a time, and change roles; their
\* role-change requests interleave at every storage step.
NextRoles ==
    \E u \in Users :
        \/ Quiet /\ BeginCallback(u)
        \/ BeginRoleChange(u, Users, Roles)
        \/ CallbackCount(u)
        \/ CallbackUpsert(u)
        \/ CreateSession(u)
        \/ RequireAdmin(u)
        \/ RoleWrite(u)

SpecRoles == InitWith({0}, MaxRequests + 2) /\ [][NextRoles]_vars

\* -------------------------------------------------------------- pagination

\* A u32 is held as two 16-bit limbs, value = hi * Limb + lo, so that its
\* arithmetic stays exact.
Limb == 65536
U32(hi, lo) == [hi |-> hi, lo |-> lo]
FromNat(n) == U32(n \div Limb, n % Limb)
U32Max == U32(Limb - 1, Limb - 1)

\* The query parameters the clients send: page and per_page absent, zero,
\* small, at the two sides of the largest page whose offset fits 32 bits with
\* per_page = 100, and at u32::MAX.
PageInputs ==
    {None} \cup {Some(FromNat(n)) : n \in {0, 1, 2, 42949673, 42949674}}
           \cup {Some(U32Max)}
PerPageInputs ==
    {None} \cup {Some(FromNat(n)) : n \in {0, 1, 20, 100, 101}}
           \cup {Some(U32Max)}

\* PaginationParams::per_page: unwrap_or(20).clamp(1, 100)
per_page(params) ==
    LET v == UnwrapOr(params.per_page, FromNat(20))
    IN  IF v.hi > 0 \/ v.lo > 100 THEN 100
        ELSE IF v.lo < 1 THEN 1
        ELSE v.lo

\* x - 1, for x >= 1.
Pred(x) ==
    IF x.lo = 0 THEN U32(x.hi - 1, Limb - 1) ELSE U32(x.hi, x.lo - 1)

\* x * n in full: lo is a limb, hi holds everything above it.
Times(x, n) ==
    [hi |-> x.hi * n + (x.lo * n) \div Limb, lo |-> (x.lo * n) % Limb]

\* PaginationParams::offset: (page.unwrap_or(1).max(1) - 1) * per_page() in
\* u32.  When the product does not fit, a build with overflow checks panics
\* and a build without them keeps the low 32 bits.
offset(params) ==
    LET p == UnwrapOr(params.page, FromNat(1))
        page == IF p = FromNat(0) THEN FromNat(1) ELSE p
        full == Times(Pred(page), per_page(params))
    IN  IF full.hi < Limb THEN {Some(full)}
        ELSE {None, Some(U32(full.hi % Limb, full.lo))}

\* A list endpoint receives its query parameters.
BeginPaginate(u) ==
    \E page \in PageInputs, pp \in PerPageInputs :
        Accept(u, "paginate",
               [op |-> "list", params |-> [page |-> page, per_page |-> pp]])

\* The handler computes per_page and offset for its query.
Paginate(u) ==
    /\ pc[u] = "paginate"
    /\ \E o \in offset(req[u].params) :
          resp' = [resp EXCEPT ![u] =
                      IF o = None
                      THEN [op |-> "list", result |-> "Panic",
                            params |-> req[u].params]
                      ELSE [op |-> "list", result |-> "Ok",
                            params |-> req[u].params,
                            per_page |-> per_page(req[u].params),
                            offset |-> o[1]]]
    /\ pc' = [pc EXCEPT ![u] = "idle"]
    /\ req' = [req EXCEPT ![u] = NoReq]
    /\ UNCHANGED <<now, advances, budget, next_id, db, sched, tick_errors>>

NextPaging ==
    \E u \in Users :
        \/ BeginPaginate(u)
        \/ Paginate(u)

SpecPaging == Init /\ [][NextPaging]_vars

\* ------------------------------------------------------------------ claims

\* Two stored rows of the same table that hold the same slug.
SlugClash(i, j) ==
    /\ i # j
    /\ items[i].ct = items[j].ct
    /\ items[i].slug = items[j].slug

\* C1: in every reachable state, under every interleaving of concurrent
\* create and update requests, no two stored pages share a slug and no two
\* stored articles share a slug.
C1_SlugsUnique == \A i, j \in Ids : ~SlugClash(i, j)

\* A racing write passed the handler's check and was stopped by the
\* constraint.
C1_RaceStopped ==
    \E u \in Users :
        /\ resp[u] = [op |-> "create", result |-> "Database"]
        /\ \E i \in Ids : items[i].slug = <<"h", "i">>

\* C2: of two create requests for the same kind whose effective slugs are
\* equal, exactly one returns Ok and the other returns Conflict: with no
\* other failure in play, a create returns Ok or Conflict.
C2_CreateOkOrConflict ==
    [][\A u \in Users :
          (req[u].op = "create" /\ pc[u] # "idle" /\ pc'[u] = "idle")
          => resp'[u].result \in {"Ok", "Conflict"}]_vars

\* C3: restore on a stored item whose status is draft, scheduled or published
\* returns BadRequest, and the items, the revisions and the audit log are as
\* they were.
C3_RestoreRejected ==
    [][\A u \in Users :
          (/\ pc[u] = "restore_get" /\ pc'[u] # "restore_get"
           /\ req[u].id \in Table(req[u].ct)
           /\ items[req[u].id].status \in {"draft", "scheduled", "published"})
          => /\ pc'[u] = "idle"
             /\ resp'[u] = [op |-> "restore", result |-> "BadRequest"]
             /\ items' = items
             /\ revisions' = revisions
             /\ audit_log' = audit_log]_vars

\* A create, a publish and a rejected restore: the row is published and the
\* audit log holds the create and the publish only.
C3_Rejected ==
    /\ budget = 0
    /\ \E u \in Users : resp[u] = [op |-> "restore", result |-> "BadRequest"]
    /\ Ids = {1}
    /\ items[1].status = "published"
    /\ Len(audit_log) = 2

\* C4: for every item that stays stored, each step keeps the revisions it
\* has, in place and unmodified: revisions are only ever added at the end.
C4_RevisionsAppendOnly ==
    [][\A i \in Ids \cap DOMAIN items' :
          /\ Len(revisions'[i]) >= Len(revisions[i])
          /\ SubSeq(revisions'[i], 1, Len(revisions[i])) = revisions[i]]_vars

\* An item with three revisions: its create and two later writes.
C4_ThreeRevisions == \E i \in Ids : Len(revisions[i]) = 3

\* C5: the UPDATE of a successful update leaves every field the request does
\* not supply at the value the row had, and sets the supplied ones; the
\* handler then appends one revision holding the row's title and content, and
\* no other step of the handler touches the revisions.
Kept(o, old, new) == IF o = None THEN new = old ELSE new = o[1]

C5_PartialUpdate ==
    [][\A u \in Users :
          /\ (pc[u] = "update_write" /\ pc'[u] = "update_rev"
              /\ req[u].id \in Table(req[u].ct))
             => LET old == items[req[u].id]
                    new == items'[req[u].id]
                    input == req[u].input
                IN  /\ Kept(input.title, old.title, new.title)
                    /\ Kept(input.slug, old.slug, new.slug)
                    /\ Kept(input.content, old.content, new.content)
                    /\ Kept(IF old.ct = "article" THEN input.short_text ELSE None,
                            old.short_text, new.short_text)
                    /\ Kept(input.status, old.status, new.status)
                    /\ new.publish_at = IF input.publish_at = Null
                                        THEN old.publish_at ELSE input.publish_at
                    /\ new.ct = old.ct
                    /\ new.author_id = old.author_id
                    /\ new.created_at = old.created_at
                    /\ new.trashed_at = old.trashed_at
          /\ (pc[u] = "update_rev" /\ pc'[u] = "audit")
             => /\ Len(revisions'[req[u].id]) = Len(revisions[req[u].id]) + 1
                /\ LET r == revisions'[req[u].id][Len(revisions'[req[u].id])]
                   IN  /\ r.title = items[req[u].id].title
                       /\ r.content = items[req[u].id].content
          /\ (pc[u] \in {"update_get", "update_check", "update_write", "audit", "final_get"}
              /\ pc'[u] # pc[u])
             => revisions' = revisions]_vars

\* An update with only a title has returned Ok: the row has the new title and
\* the content, status and slug it was created with, and its second revision
\* holds the new title and that content.
C5_TitleOnly ==
    /\ resp["u1"] = [op |-> "update", result |-> "Ok"]
    /\ \E i \in Ids :
        /\ items[i].title = NewTitle
        /\ items[i].content = "c1"
        /\ items[i].status = "scheduled"
        /\ items[i].slug = <<"o", "k">>
        /\ Len(revisions[i]) = 2
        /\ revisions[i][2].title = NewTitle
        /\ revisions[i][2].content = "c1"

\* The instants the stored texts stand for.
RealExpired(row) ==
    /\ row.status = "trashed"
    /\ row.trashed_at # Null
    /\ row.trashed_at.t < now - Retention

RealDue(row) ==
    /\ row.status = "scheduled"
    /\ row.publish_at # Null
    /\ row.publish_at.t <= now

\* C6: a row leaves the tables only if, at that step, its status is trashed
\* and its trashed_at is more than 30 days in the past.
C6_OnlyExpiredErased ==
    [][\A i \in Ids \ DOMAIN items' : RealExpired(items[i])]_vars

\* A row has been erased.
C6_Erased == \E i \in 1 .. (next_id - 1) : i \notin Ids

\* C7: the promotion steps of a tick leave every page and every article that
\* was scheduled with publish_at <= now published, with updated_at bumped.
C7_TickPromotesDue ==
    [][\A ct \in ContentTypes :
          (sched = (IF ct = "page" THEN "promote_pages" ELSE "promote_articles")
           /\ sched' = (IF ct = "page" THEN "promote_articles" ELSE "sweep_pages"))
          => \A i \in Table(ct) :
                RealDue(items[i])
                => items'[i].status = "published" /\ items'[i].updated_at.t = now]_vars

\* C8: the sweep steps of a tick and of an empty-trash call leave no page and
\* no article that was trashed more than 30 days before.
C8_SweepRemovesExpired ==
    [][/\ (sched = "sweep_pages" /\ sched' = "sweep_articles")
          => \A i \in Table("page") : RealExpired(items[i]) => i \notin DOMAIN items'
       /\ (sched = "sweep_articles" /\ sched' = "sessions")
          => \A i \in Table("article") : RealExpired(items[i]) => i \notin DOMAIN items'
       /\ \A u \in Users :
            /\ (pc[u] = "empty_pages" /\ pc'[u] = "empty_articles")
               => \A i \in Table("page") : RealExpired(items[i]) => i \notin DOMAIN items'
            /\ (pc[u] = "empty_articles" /\ pc'[u] = "idle")
               => \A i \in Table("article") : RealExpired(items[i]) => i \notin DOMAIN items']_vars

\* The queries of a tick in the order run_scheduled_tasks issues them, and
\* whether a query has rows to change.
TickOrder == <<"promote_pages", "promote_articles", "sweep_pages",
               "sweep_articles", "sessions">>

Position(step) == CHOOSE k \in 1 .. Len(TickOrder) : TickOrder[k] = step

Pending(step) ==
    CASE step = "promote_pages" -> \E i \in Table("page") : Due(items[i])
      [] step = "promote_articles" -> \E i \in Table("article") : Due(items[i])
      [] step = "sweep_pages" -> \E i \in Table("page") : Expired(items[i])
      [] step = "sweep_articles" -> \E i \in Table("article") : Expired(items[i])
      [] OTHER -> \E x \in sessions : SessionExpired(x)

\* C9 as claimed: when a query of a tick fails, every query after it has
\* still run and taken effect once the tick is over: none of them has rows
\* left to change.
C9_FailureSparesOtherSteps ==
    [][tick_errors' # tick_errors
       => \A k \in 1 .. Len(TickOrder) :
             k > Position(sched) => ~Pending(TickOrder[k])']_vars

\* C9: when a query of a tick fails, the tick is over: the scheduler is back
\* asleep and the failing run has changed nothing more; the queries after the
\* failing one wait for a later tick.
C9_FailureEndsTick ==
    [][tick_errors' # tick_errors => sched' = "sleep" /\ UNCHANGED db]_vars

\* A tick failed at a query and a later query of it had rows to change: they
\* are still there.
C9_Skipped ==
    /\ tick_errors > 0
    /\ sched = "sleep"
    /\ advances = 0
    /\ Pending("promote_articles")

\* C10: the first tick after a failed one in which every query works applies
\* every transition that is due: it leaves no scheduled item with
\* publish_at <= now, no item trashed more than 30 days before, and no
\* session past its expiry.
C10_WorkingTickAppliesAllDue ==
    [][(tick_errors > 0 /\ tick_errors' = tick_errors
        /\ sched = "sessions" /\ sched' = "sleep")
       => /\ \A i \in DOMAIN items' : ~RealDue(items[i])' /\ ~RealExpired(items[i])'
          /\ \A x \in sessions' : ~(x.expires_at.t < now)]_vars

\* C11: when the audit write of a create, update, publish, trash or restore
\* fails, the operation still succeeds: the handler goes on to its closing
\* read or returns Ok.
C11_AuditFailureSwallowed ==
    [][\A u \in Users :
          (pc[u] = "audit" /\ pc'[u] # "audit" /\ audit_log' = audit_log)
          => pc'[u] = "final_get" \/ resp'[u].result = "Ok"]_vars

\* A step that runs the DELETE on table ct: of a tick, or of an empty-trash
\* call.
SweepStepOf(ct) ==
    IF ct = "page" THEN sched = "sweep_pages" /\ sched' = "sweep_articles"
    ELSE sched = "sweep_articles" /\ sched' = "sessions"

EmptyStepOf(ct) ==
    \E u \in Users :
        IF ct = "page" THEN pc[u] = "empty_pages" /\ pc'[u] = "empty_articles"
        ELSE pc[u] = "empty_articles" /\ pc'[u] = "idle"

\* C12: in every state the empty-trash call and the sweep of a tick select
\* the same rows; either DELETE erases exactly those rows of its table and
\* leaves the others as they were, so that the other path (or a second run)
\* then finds nothing to delete in that table, whatever the interleaving.
C12_SamePurge ==
    [][/\ \A i \in Ids : Expired(items[i]) <=> EmptyEligible(items[i])
       /\ \A ct \in ContentTypes :
            (SweepStepOf(ct) \/ EmptyStepOf(ct))
            => /\ DOMAIN items' = Ids \ {i \in Table(ct) : Expired(items[i])}
               /\ \A i \in DOMAIN items' :
                    /\ items'[i] = items[i]
                    /\ items'[i].ct = ct
                       => ~Expired(items'[i]) /\ ~EmptyEligible(items'[i])]_vars

\* An empty-trash call has returned while a tick is past its sweeps, and a
\* row has been erased.
C12_BothRan ==
    /\ resp["u1"] = [op |-> "empty", result |-> "Ok"]
    /\ sched = "sessions"
    /\ \E i \in 1 .. (next_id - 1) : i \notin Ids

\* The update and restore_revision operations on item i that succeeded: each
\* left one "update" entry in the audit log.
Successes(i) ==
    Cardinality({k \in 1 .. Len(audit_log) :
                    /\ audit_log[k].action = "update"
                    /\ audit_log[k].entity_id = i})

LifecycleStep ==
    \/ \E u \in Users : req[u].op \in {"publish", "trash", "restore"} /\ pc'[u] # pc[u]
    \/ sched \in {"promote_pages", "promote_articles"} /\ sched' # sched

\* C14: no storage step of publish, trash or restore and no promotion step
\* of a tick changes the revision tables; and whenever a stored item's
\* revisions change, the step is the revision INSERT of a create, update or
\* restore_revision on that item and it appends one row.
C14_LifecycleSparesRevisions ==
    [][/\ LifecycleStep => revisions' = revisions
       /\ \A i \in DOMAIN revisions \cap DOMAIN revisions' :
             revisions'[i] # revisions[i]
             => /\ \E u \in Users :
                      /\ req[u].op \in {"create", "update", "restore_revision"}
                      /\ req[u].id = i
                      /\ pc[u] \in {"create_rev", "update_rev"}
                      /\ pc'[u] = "audit"
                /\ Len(revisions'[i]) = Len(revisions[i]) + 1
                /\ SubSeq(revisions'[i], 1, Len(revisions[i])) = revisions[i]]_vars

\* One item was promoted by a tick (the scheduler wrote its updated_at) and
\* another was trashed: each still has the one revision of its create.
C14_PromotedAndTrashed ==
    /\ Quiet
    /\ resp["u1"] = [op |-> "trash", result |-> "Ok"]
    /\ \E i, j \in Ids :
          /\ items[i].status = "published"
          /\ items[i].updated_at = TsSql(now)
          /\ Len(revisions[i]) = 1
          /\ items[j].status = "trashed"
          /\ Len(revisions[j]) = 1

\* The revision a restore_revision request names.
Chosen(u) == revisions[req[u].revision_id[1]][req[u].revision_id[2]]

\* C15: the UPDATE of a restore_revision sets the item's title and content
\* (and short_text for an article) to those of the chosen revision and
\* leaves its status, slug and publish_at as they were, whatever the status
\* is; the handler then appends one revision holding the restored title
\* and content, keeps the earlier revisions as they were, and returns Ok.
C15_RestoreRevision ==
    [][\A u \in Users :
          req[u].op = "restore_revision" /\ pc'[u] # pc[u]
          => /\ pc[u] = "update_write"
                => LET old == items[req[u].id]
                       new == items'[req[u].id]
                   IN  /\ new.title = Chosen(u).title
                       /\ new.content = Chosen(u).content
                       /\ old.ct = "article" => new.short_text = Chosen(u).short_text
                       /\ new.status = old.status
                       /\ new.slug = old.slug
                       /\ new.publish_at = old.publish_at
             /\ pc[u] = "update_rev"
                => LET revs == revisions'[req[u].id]
                   IN  /\ Len(revs) = Len(revisions[req[u].id]) + 1
                       /\ SubSeq(revs, 1, Len(revs) - 1) = revisions[req[u].id]
                       /\ revs[Len(revs)].title = Chosen(u).title
                       /\ revs[Len(revs)].content = Chosen(u).content
             /\ pc[u] # "update_rev" => revisions' = revisions
             /\ pc[u] # "update_write" => items' = items
             /\ pc[u] \in {"update_write", "update_rev", "audit"} => pc'[u] # "idle"
             /\ pc[u] = "final_get" => resp'[u].result = "Ok"]_vars

\* An item was created as scheduled, given a new title, published, and then
\* restored to its first revision: it has its first title again under the
\* same slug, is still published, and has four revisions.
C15_Reverted ==
    /\ resp["u1"] = [op |-> "restore_revision", result |-> "Ok"]
    /\ Ids = {1}
    /\ items[1].status = "published"
    /\ items[1].title = <<"H", "i", "!">>
    /\ items[1].slug = <<"o", "k">>
    /\ Len(revisions[1]) = 4
    /\ revisions[1][2].title = NewTitle
    /\ revisions[1][4].title = <<"H", "i", "!">>

\* C16: a restore_revision whose revision_id names no revision of the item
\* it names (no revision at all, or a revision of another item) returns
\* NotFound, and the items, the revisions and the audit log are as they
\* were.
C16_ForeignRevisionNotFound ==
    [][\A u \in Users :
          (/\ pc[u] = "rr_select" /\ pc'[u] # pc[u]
           /\ \/ req[u].revision_id \notin RevisionIds
              \/ req[u].revision_id[1] # req[u].id)
          => /\ pc'[u] = "idle"
             /\ resp'[u] = [op |-> "restore_revision", result |-> "NotFound"]
             /\ items' = items
             /\ revisions' = revisions
             /\ audit_log' = audit_log]_vars

\* Two items are stored, each with its revisions, one of them edited; a
\* restore_revision naming one of them has returned NotFound and nothing
\* was written for it.
C16_Refused ==
    /\ resp["u1"] = [op |-> "restore_revision", result |-> "NotFound"]
    /\ Ids = {1, 2}
    /\ Len(revisions[1]) = 2
    /\ Len(revisions[2]) = 1
    /\ items[1].title = NewTitle
    /\ Len(audit_log) = 3

\* C17: trash on a stored item goes through whatever the item's status is,
\* draft, scheduled, published or already trashed: its UPDATE leaves the
\* status trashed and trashed_at at the instant of this call, and touches
\* nothing else but updated_at; the request then returns Ok.
C17_TrashFromAnyStatus ==
    [][\A u \in Users :
          req[u].op = "trash" /\ pc'[u] # pc[u] /\ req[u].id \in Table(req[u].ct)
          => /\ pc'[u] # "idle" \/ resp'[u] = [op |-> "trash", result |-> "Ok"]
             /\ pc[u] = "trash_write"
                => LET old == items[req[u].id]
                       new == items'[req[u].id]
                   IN  /\ new.status = "trashed"
                       /\ new.trashed_at # Null
                       /\ new.trashed_at.t = now
                       /\ new = [old EXCEPT !.status = new.status,
                                            !.trashed_at = new.trashed_at,
                                            !.updated_at = new.updated_at]
             /\ pc[u] # "trash_write" => items' = items]_vars

\* An item created at an earlier instant has been trashed twice: it is
\* trashed with trashed_at at the instant of the second call.
C17_TrashedTwice ==
    /\ resp["u1"] = [op |-> "trash", result |-> "Ok"]
    /\ Ids = {1}
    /\ items[1].status = "trashed"
    /\ items[1].trashed_at = TsIso(now)
    /\ items[1].created_at # TsIso(now)
    /\ Len(audit_log) = 3
    /\ audit_log[2].action = "trash"
    /\ audit_log[3].action = "trash"

\* C18: publish on a stored item goes through whatever the item's status
\* is: its UPDATE leaves the status published and updated_at at the instant
\* of the call, and the title, slug, content and author as they were; no
\* other step of the request writes the row, and the request returns Ok.
C18_PublishFromAnyStatus ==
    [][\A u \in Users :
          req[u].op = "publish" /\ pc'[u] # pc[u] /\ req[u].id \in Table(req[u].ct)
          => /\ pc'[u] # "idle" \/ resp'[u] = [op |-> "publish", result |-> "Ok"]
             /\ pc[u] = "publish_write"
                => LET old == items[req[u].id]
                       new == items'[req[u].id]
                   IN  /\ new.status = "published"
                       /\ new.updated_at # Null
                       /\ new.updated_at.t = now
                       /\ new.title = old.title
                       /\ new.slug = old.slug
                       /\ new.content = old.content
                       /\ new.author_id = old.author_id
             /\ pc[u] # "publish_write" => items' = items]_vars

\* An item was created, trashed, and then published at a later instant: it
\* is published, with the title and slug of its create.
C18_PublishedFromTrash ==
    /\ resp["u1"] = [op |-> "publish", result |-> "Ok"]
    /\ Ids = {1}
    /\ items[1].status = "published"
    /\ items[1].trashed_at # Null
    /\ items[1].updated_at = TsIso(now)
    /\ items[1].trashed_at # TsIso(now)
    /\ items[1].title = <<"H", "i">>
    /\ items[1].slug = <<"h", "i">>
    /\ Len(audit_log) = 3

\* C19: restore on a stored item whose status is trashed goes through,
\* whatever the item was before it was trashed: its UPDATE leaves the status
\* draft and trashed_at NULL, and the title, slug, content, publish_at and
\* author_id as they were; no other step of the request writes the row, and
\* the request returns Ok.
C19_RestoreFromTrash ==
    [][\A u \in Users :
          (/\ req[u].op = "restore" /\ pc'[u] # pc[u]
           /\ req[u].id \in Table(req[u].ct))
          => /\ (pc[u] = "restore_get" /\ items[req[u].id].status = "trashed")
                => pc'[u] = "restore_write"
             /\ pc[u] \in {"restore_write", "audit"} => pc'[u] # "idle"
             /\ pc[u] = "final_get" => resp'[u] = [op |-> "restore", result |-> "Ok"]
             /\ (pc[u] = "restore_write" /\ items[req[u].id].status = "trashed")
                => LET old == items[req[u].id]
                       new == items'[req[u].id]
                   IN  /\ new.status = "draft"
                       /\ new.trashed_at = Null
                       /\ new.title = old.title
                       /\ new.slug = old.slug
                       /\ new.content = old.content
                       /\ new.publish_at = old.publish_at
                       /\ new.author_id = old.author_id
             /\ pc[u] # "restore_write" => items' = items]_vars

\* An item created as scheduled was trashed and then restored: it is a
\* draft out of the trash and still has the publish_at of its create.
C19_BackToDraft ==
    /\ resp["u1"] = [op |-> "restore", result |-> "Ok"]
    /\ Ids = {1}
    /\ items[1].status = "draft"
    /\ items[1].trashed_at = Null
    /\ items[1].publish_at # Null
    /\ items[1].author_id = "u1"
    /\ Len(audit_log) = 3
    /\ audit_log[2].action = "trash"

\* C20: an update, publish, trash, restore or list_revisions whose id names
\* no stored item (it was never handed out, or its item was erased) returns
\* NotFound at its first storage step, and the items, the revisions, the
\* audit log and the sessions are as they were.
C20_AbsentIdNotFound ==
    [][\A u \in Users :
          (/\ req[u].op \in {"update", "publish", "trash", "restore", "list_revisions"}
           /\ pc'[u] # pc[u]
           /\ req[u].id \notin Ids)
          => /\ pc'[u] = "idle"
             /\ resp'[u] = [op |-> req[u].op, result |-> "NotFound"]
             /\ UNCHANGED db]_vars

\* The one item ever created was trashed and erased, and a list_revisions
\* sent afterwards returned NotFound: no id it could name was stored.
C20_NothingThere ==
    /\ resp["u1"] = [op |-> "list_revisions", result |-> "NotFound"]
    /\ next_id = 2
    /\ Ids = {}
    /\ Len(audit_log) = 2

\* C21: an update that supplies no slug, or the slug the item has, goes
\* straight to its UPDATE, and no step from there on returns Conflict; an
\* update whose new slug is held by another row of the same table when the
\* handler checks returns Conflict, and the items, the revisions and the
\* audit log are as they were.
C21_ConflictOnlyOnTakenSlug ==
    [][\A u \in Users :
          req[u].op = "update" /\ pc'[u] # pc[u] /\ req[u].id \in Table(req[u].ct)
          => /\ (/\ pc[u] = "update_get"
                 /\ \/ req[u].input.slug = None
                    \/ req[u].input.slug = Some(items[req[u].id].slug))
                => pc'[u] = "update_write"
             /\ (pc[u] # "update_check" /\ pc'[u] = "idle")
                => resp'[u].result # "Conflict"
             /\ (/\ pc[u] = "update_check"
                 /\ \E j \in Table(req[u].ct) \ {req[u].id} :
                       items[j].slug = req[u].merged.slug)
                => /\ pc'[u] = "idle"
                   /\ resp'[u] = [op |-> "update", result |-> "Conflict"]
                   /\ items' = items
                   /\ revisions' = revisions
                   /\ audit_log' = audit_log]_vars

\* Two items of one table hold the slugs "hi" and "ok", and an update that
\* asked for the other one's slug has returned Conflict; the audit log
\* holds the two creates only.
C21_SlugTaken ==
    /\ resp["u1"] = [op |-> "update", result |-> "Conflict"]
    /\ Ids = {1, 2}
    /\ items[1].ct = items[2].ct
    /\ {items[1].slug, items[2].slug} = {<<"h", "i">>, <<"o", "k">>}
    /\ Len(revisions[1]) = 1
    /\ Len(revisions[2]) = 1
    /\ Len(audit_log) = 2

C23_AuthorFixed ==
    [][/\ DOMAIN items' \subseteq Ids \cup {next_id}
       /\ \A i \in Ids \cap DOMAIN items' :
             /\ items'[i].ct = items[i].ct
             /\ items'[i].author_id = items[i].author_id
       /\ \A u \in Users :
             (pc[u] = "create_insert" /\ pc'[u] = "create_rev")
             => items'[next_id].author_id = u
       /\ \A u \in Users :
             (pc[u] = "update_rev" /\ pc'[u] = "audit")
             => revisions'[req[u].id][Len(revisions'[req[u].id])].author_id = u]_vars

\* An item created by u1 was given a new title by u2 and then published by
\* u2: u1 is still its author, and its second revision names u2.
C23_EditedByAnother ==
    /\ resp["u2"] = [op |-> "publish", result |-> "Ok"]
    /\ Ids = {1}
    /\ items[1].author_id = "u1"
    /\ items[1].title = NewTitle
    /\ items[1].status = "published"
    /\ Len(revisions[1]) = 2
    /\ revisions[1][1].author_id = "u1"
    /\ revisions[1][2].author_id = "u2"

C25_NewestFirst ==
    [][\A u \in Users :
          (pc[u] = "list_select" /\ pc'[u] = "idle" /\ req[u].id \in Ids)
          => LET n == Len(revisions[req[u].id])
             IN  resp'[u].rows = [k \in 1 .. n |-> n + 1 - k]]_vars

\* C26: no storage step of a trash request changes the revisions; a step
\* that erases an item leaves no revision of it; and after every step every
\* stored revision belongs to a stored item.
C26_RevisionsLiveWithParent ==
    [][/\ (\E u \in Users : req[u].op = "trash" /\ pc'[u] # pc[u])
          => revisions' = revisions
       /\ \A i \in Ids \ DOMAIN items' : i \notin DOMAIN revisions'
       /\ \A p \in DOMAIN revisions' : revisions'[p] # <<>> => p \in DOMAIN items']_vars

\* The one item was erased while an update of it was in flight: the update's
\* revision INSERT was refused, and no item and no revision is stored.
C26_ErasedUnderUpdate ==
    /\ resp["u1"] = [op |-> "update", result |-> "Database"]
    /\ next_id = 2
    /\ Ids = {}
    /\ DOMAIN revisions = {}

\* A URL-safe slug: lowercase alphanumerics and "-" only, no "-" at either
\* end and no two "-" in a row.
UrlSafe(s) ==
    /\ \A k \in 1 .. Len(s) : s[k] \in Lower \/ s[k] = "-"
    /\ s # <<>> => s[1] # "-" /\ s[Len(s)] # "-"
    /\ \A k \in 1 .. (Len(s) - 1) : ~(s[k] = "-" /\ s[k + 1] = "-")

\* C27: in every state the slug of every stored page and article is
\* URL-safe, whether create derived it from the title or the caller of
\* create or update supplied it.
C27_SlugsUrlSafe == \A i \in Ids : UrlSafe(items[i].slug)

\* C28: a public lookup by slug returns the rows of its table that hold the
\* slug and are published when the SELECT runs, and NotFound when there is
\* none; the public article list returns the articles that are published
\* when its SELECT runs: no draft, scheduled or trashed row is returned.
C28_PublicSeesPublishedOnly ==
    [][\A u \in Users :
          /\ (pc[u] = "public_get" /\ pc'[u] = "idle")
             => /\ resp'[u].rows = {i \in Table(req[u].ct) :
                                      /\ items[i].slug = req[u].slug
                                      /\ items[i].status = "published"}
                /\ resp'[u].result = "NotFound" <=> resp'[u].rows = {}
          /\ (pc[u] = "public_list" /\ pc'[u] = "public_count")
             => req'[u].rows = {i \in Table("article") :
                                  items[i].status = "published"}
          /\ (pc[u] = "public_count" /\ pc'[u] = "idle")
             => resp'[u].rows = req[u].rows]_vars

\* An item was created, published and trashed, and a lookup of its slug
\* sent after that has returned NotFound.
C28_HiddenOnceTrashed ==
    /\ resp["u2"] = [op |-> "public_get", result |-> "NotFound", rows |-> {}]
    /\ budget = 0
    /\ Ids = {1}
    /\ items[1].status = "trashed"
    /\ Len(audit_log) = 3
    /\ audit_log[2].action = "publish"
    /\ audit_log[3].action = "trash"

\* C29: the session step of a tick leaves exactly the sessions that
\* cleanup_expired_sessions would leave: every session validate_session
\* rejects at that moment is gone after the step, and every session it
\* accepts is still there.
C29_TickIsCleanup ==
    [][(sched = "sessions" /\ sched' = "sleep")
       => /\ sessions' = cleanup_expired_sessions
          /\ \A s \in sessions : SessionValid(s) <=> s \in sessions']_vars


\* C30: update_menu replaces a menu's items as a whole: a get_menu that finds
\* the menu returns one caller's complete list, never an empty or a partial
\* one, and once every request has returned the menu holds exactly one
\* caller's list, never a mixture of two.
C30_MenuReplacedAsASet ==
    /\ \A u \in Users :
          (resp[u].op = "get_menu" /\ resp[u].result = "Ok")
              => Labels(resp[u].rows) \in MenuInputs
    /\ (Quiet /\ MenuName \in menus)
          => \A rows \in BySortOrder(ItemsOf(MenuName)) :
                Labels(rows) \in MenuInputs


\* C31: in every state a stored item has trashed_at set exactly when its
\* status is trashed, whichever operation brought it into or out of the trash.
C31_TrashedAtIffTrashed ==
    \A i \in Ids : (items[i].trashed_at # Null) <=> (items[i].status = "trashed")


\* The moment a trashed row of SpecRetrash entered the trash: the request that
\* trashed it (trash, or an update setting the status) was the last to write
\* the row and set updated_at to the time of its write.
TrashedSince(row) == row.updated_at.t

\* C32: a row is erased no sooner than 30 days after the most recent moment
\* its status became trashed, whichever request trashed it and whatever
\* happened to it before.
C32_ErasedAfterRetention ==
    [][\A i \in Ids :
          i \notin DOMAIN items' => now - TrashedSince(items[i]) >= Retention]_vars


\* C33: the UPDATE of a restore finds the row in the trash, whatever other
\* requests ran between the restore's read of the status and its write: a
\* restore never writes status = draft over a row that is not trashed.
C33_RestoreWritesOnTrashedOnly ==
    [][\A u \in Users :
          (/\ pc[u] = "restore_write" /\ pc'[u] # pc[u]
           /\ req[u].id \in Table(req[u].ct))
          => items[req[u].id].status = "trashed"]_vars

\* C34: the UPDATE of an update that supplies no status leaves the row's
\* status as it is at that moment, and leaves the slug, content and
\* publish_at the request did not supply as they are at that moment, whatever
\* other requests ran between the update's read of the row and its write.
C34_UpdateKeepsStatus ==
    [][\A u \in Users :
          (/\ pc[u] = "update_write" /\ pc'[u] # pc[u]
           /\ req[u].id \in Table(req[u].ct)
           /\ req[u].input.status = None)
          => LET old == items[req[u].id]
                 new == items'[req[u].id]
                 input == req[u].input
             IN  /\ new.status = old.status
                 /\ input.title = None => new.title = old.title
                 /\ input.slug = None => new.slug = old.slug
                 /\ input.content = None => new.content = old.content
                 /\ input.publish_at = Null => new.publish_at = old.publish_at]_vars


\* C35: when no request is in flight, the revision last added to an item
\* holds the title, the content and the short_text of the item's row,
\* however the updates and restore_revision calls on the item interleaved.
C35_NewestRevisionIsRow ==
    Quiet =>
        \A i \in Ids :
            Len(revisions[i]) > 0 =>
                LET newest == revisions[i][Len(revisions[i])]
                IN  /\ newest.title = items[i].title
                    /\ newest.content = items[i].content
                    /\ newest.short_text = items[i].short_text


\* C36: in every state, between the storage steps of a create and after a
\* create that failed part-way included, every stored item has at least one
\* revision.
C36_EveryItemHasARevision ==
    \A i \in Ids : Len(revisions[i]) >= 1


\* C37: a step of the scheduler leaves the audit log as it is, and leaves
\* every row it does not erase as it is but for the promotion: the only rows
\* it changes are scheduled rows whose publish_at is set and not in the
\* future, and on these it changes status (to published) and updated_at, and
\* nothing else.
C37_PromotionFrame ==
    [][sched' # sched
       => /\ audit_log' = audit_log
          /\ \A i \in Ids \cap DOMAIN items' :
                items'[i] # items[i]
                => /\ items[i].status = "scheduled"
                   /\ items[i].publish_at # Null
                   /\ items[i].publish_at.t <= now
                   /\ items'[i] = [items[i] EXCEPT
                                      !.status = "published",
                                      !.updated_at = items'[i].updated_at]]_vars

\* A tick has promoted one scheduled item and left another, whose publish_at
\* is in the future, scheduled.
C37_PromotedOneOfTwo ==
    /\ sched = "sweep_pages"
    /\ \E i, j \in Ids :
          /\ items[i].status = "published"
          /\ items[i].updated_at = TsSql(now)
          /\ items[j].status = "scheduled"
          /\ items[j].publish_at # Null
          /\ items[j].publish_at.t > now


\* C38: once a person has logged in there is exactly one admin, the first to
\* complete the callback, however the callbacks interleave; and a callback
\* never changes the role of a person who has a row.
C38_OneAdmin ==
    [][/\ Cardinality(Admins') = (IF DOMAIN users' = {} THEN 0 ELSE 1)
       /\ \A p \in DOMAIN users : users'[p].role = users[p].role]_vars


\* C39: a role-change request that names the caller and a role other than the
\* one the caller has returns BadRequest and leaves the users table as it is;
\* and no step takes the last admin away, when the role changes come from
\* persons who were admin when require_admin let them in.
C39_AnAdminRemains ==
    [][/\ \A u \in Users :
             (/\ pc[u] = "role_write" /\ pc'[u] # pc[u]
              /\ req[u].target = u
              /\ u \in DOMAIN users
              /\ req[u].role # users[u].role)
             => /\ resp'[u] = [op |-> "update_user_role", result |-> "BadRequest"]
                /\ users' = users
       /\ Admins # {} => Admins' # {}]_vars


\* C40: for every page and per_page a client can send, per_page() lies in
\* 1 .. 100 and is 20 when per_page is absent, and offset() returns
\* (max(page, 1) - 1) * per_page() exactly: the handler does not panic and
\* the product is not cut to its low 32 bits.
C40_PaginationExact ==
    \A u \in Users :
        resp[u].op = "list" =>
            /\ resp[u].result = "Ok"
            /\ resp[u].per_page \in 1 .. 100
            /\ resp[u].params.per_page = None => resp[u].per_page = 20
            /\ LET p == UnwrapOr(resp[u].params.page, FromNat(1))
                   page == IF p = FromNat(0) THEN FromNat(1) ELSE p
               IN  resp[u].offset = Times(Pred(page), resp[u].per_page)

====
